---- MODULE Spec2Model ----
(***************************************************************************)
(* A model of InteractionService (src/src/services/interaction.js): the    *)
(* randomized contract-interaction driver.  interact() is an async         *)
(* function; every await is a step of the state machine.  Function names   *)
(* are sequences of one-character strings so that toLowerCase() and        *)
(* includes() are computed, not assumed.                                   *)
(***************************************************************************)
EXTENDS Integers, Sequences, FiniteSets, TLC

VARIABLES
    pc,               \* position inside interact()
    abi,              \* contractInfo.abi
    interactionCount, \* the targetCount argument
    submitter,        \* behaviour of the ledger: "succeeds", "fails", "any"
    initStep,         \* initialization transactions confirmed so far
    initFailed,       \* the initialization try block ended in its catch
    writeFunctions,   \* line 52
    safeFunctions,    \* line 72
    results,          \* line 30
    successCount,     \* line 31
    i,                \* line 80, the attempt counter
    retriesLeft,      \* line 79, held in units of 1/Halves
    pending,          \* the transaction sent and not yet confirmed
    attempts,         \* number of loop iterations started (history)
    clock,            \* logical time, advanced by every setTimeout
    saved,            \* the files written by saveInteractions
    handed,           \* the outcome lists passed to saveInteractions
    returned,         \* the value interact() returned
    synthCount,       \* calls of _generateSafeArgument made so far
    synthFirst,       \* the first call: its inputs and its value
    synthLast,        \* the latest call: its inputs and its value
    inFlight,         \* transactions sent and not yet confirmed or failed
    program,          \* entry point: "index" (processWallet) or "interactOnly"
    config,           \* the loaded configuration
    wallets,          \* main's wallets array
    deployedStore,    \* DeployerService.deployedContracts
    walletIndex,      \* main's loop variable i, 0-based
    wpc,              \* position inside main / processWallet
    initialBalance,   \* processWallet's initialBalance, in tenths of ETH
    retryCount,       \* retryCount of the faucet loop or of the deploy loop
    faucetSuccess,
    deployedContracts,\* processWallet's local list
    deployIndex,      \* the deploy loop variable i
    functionCount,
    deploySuccess,
    contractIndex,    \* position of the for-of loop over deployedContracts
    deployLog,        \* function counts passed to deployContract, this wallet
    interactLog,      \* contracts passed to interact, this wallet
    processed,        \* wallets whose processing has returned, in order
    interactErrors,   \* interact() calls that threw, this wallet (history)
    walletErrors,     \* wallets that ended in the outer catch (history)
    fpc,              \* position inside claimFaucet
    fMaxRetries,      \* FaucetService.maxRetries
    fProxy,           \* claimFaucet's proxy argument
    fRetryCount,      \* claimFaucet's retryCount
    fRegion,          \* the region passed to the captcha solver
    fAttempts,        \* iterations of claimFaucet's loop started (history)
    fPosts,           \* requests sent to the faucet (history)
    fResult           \* the value claimFaucet returned

vars == <<pc, abi, interactionCount, submitter, initStep, initFailed,
          writeFunctions, safeFunctions, results, successCount, i,
          retriesLeft, pending, attempts, clock, saved, handed, returned,
          synthCount, synthFirst, synthLast, inFlight,
          program, config, wallets, deployedStore, walletIndex, wpc,
          initialBalance, retryCount, faucetSuccess, deployedContracts,
          deployIndex, functionCount, deploySuccess, contractIndex,
          deployLog, interactLog, processed, interactErrors, walletErrors,
          fpc, fMaxRetries, fProxy, fRetryCount, fRegion, fAttempts, fPosts,
          fResult>>

synthVars == <<synthCount, synthFirst, synthLast>>

walletVars == <<program, config, wallets, deployedStore, walletIndex, wpc,
                initialBalance, retryCount, faucetSuccess, deployedContracts,
                deployIndex, functionCount, deploySuccess, contractIndex,
                deployLog, interactLog, processed, interactErrors,
                walletErrors>>

\* the variables of one claimFaucet() call
faucetVars == <<fpc, fMaxRetries, fProxy, fRetryCount, fRegion, fAttempts,
                fPosts, fResult>>

\* the variables of one interact() call
interactVars == <<pc, abi, interactionCount, submitter, initStep, initFailed,
                  writeFunctions, safeFunctions, results, successCount, i,
                  retriesLeft, pending, attempts, clock, saved, handed, returned>>

----------------------------------------------------------------------------
(* Bounds *)

MaxTarget == 3
MaxDraws == 2
MaxSynthCalls == 3

(* Program constants *)

Halves == 2
InitCalls == 6
EndToEndCount == 10

None == [none |-> TRUE]

----------------------------------------------------------------------------
(* Strings as character sequences *)

UpperChars == <<"A","B","C","D","E","F","G","H","I","J","K","L","M",
                "N","O","P","Q","R","S","T","U","V","W","X","Y","Z">>
LowerChars == <<"a","b","c","d","e","f","g","h","i","j","k","l","m",
                "n","o","p","q","r","s","t","u","v","w","x","y","z">>

toLowerCaseChar(c) ==
    IF \E k \in 1..Len(UpperChars) : UpperChars[k] = c
    THEN LowerChars[CHOOSE k \in 1..Len(UpperChars) : UpperChars[k] = c]
    ELSE c

toLowerCase(s) == [k \in 1..Len(s) |-> toLowerCaseChar(s[k])]

includes(s, sub) ==
    \E k \in 1..(Len(s) - Len(sub) + 1) : SubSeq(s, k, k + Len(sub) - 1) = sub

\* the substrings the driver looks for
STR_power     == <<"p","o","w","e","r">>
STR_decrement == <<"d","e","c","r","e","m","e","n","t">>
STR_pop       == <<"p","o","p">>
STR_divide    == <<"d","i","v","i","d","e">>
STR_subtract  == <<"s","u","b","t","r","a","c","t">>
STR_set       == <<"s","e","t">>
STR_init      == <<"i","n","i","t">>
STR_add       == <<"a","d","d">>
STR_increment == <<"i","n","c","r","e","m","e","n","t">>
STR_store     == <<"s","t","o","r","e">>

problematicFunctions == {STR_power, STR_decrement, STR_pop, STR_divide}

----------------------------------------------------------------------------
(* Contract interfaces the driver is run against *)

NAME_addTotal    == <<"a","d","d","T","o","t","a","l">>
NAME_setValue    == <<"s","e","t","V","a","l","u","e">>
NAME_getValue    == <<"g","e","t","V","a","l","u","e">>
NAME_powerBoost  == <<"p","o","w","e","r","B","o","o","s","t">>
NAME_storeData   == <<"s","t","o","r","e","D","a","t","a">>
NAME_DividePool  == <<"D","i","v","i","d","e","P","o","o","l">>
NAME_resetPower  == <<"r","e","s","e","t","P","o","w","e","r">>
NAME_toggle      == <<"t","o","g","g","l","e">>
NAME_decrementTotal == <<"d","e","c","r","e","m","e","n","t","T","o","t","a","l">>
NAME_divideShare == <<"d","i","v","i","d","e","S","h","a","r","e">>
NAME_subtractFee == <<"s","u","b","t","r","a","c","t","F","e","e">>
NAME_IncrementBy == <<"I","n","c","r","e","m","e","n","t","B","y">>
NAME_addPower    == <<"a","d","d","P","o","w","e","r">>
NAME_Changed     == <<"C","h","a","n","g","e","d">>

Fn(name, mut, types) ==
    [type |-> "function", name |-> name, stateMutability |-> mut,
     inputs |-> [k \in 1..Len(types) |-> [type |-> types[k]]]]

EventItem == [type |-> "event", name |-> NAME_Changed, inputs |-> <<>>]
ViewItem  == Fn(NAME_getValue, "view", <<>>)
PureItem  == Fn(NAME_toggle, "pure", <<"bool">>)

ReadOnlyAbi   == <<EventItem, ViewItem, PureItem>>
EndToEndAbi   == <<Fn(NAME_addTotal, "nonpayable", <<"address">>), ViewItem,
                   Fn(NAME_setValue, "payable", <<"bool">>)>>
RiskyOnlyAbi  == <<ViewItem, Fn(NAME_powerBoost, "nonpayable", <<"uint256">>)>>
NoWarmUpAbi   == <<Fn(NAME_storeData, "nonpayable", <<"string">>), EventItem,
                   Fn(NAME_DividePool, "nonpayable", <<"uint256">>)>>
MixedAbi      == <<Fn(NAME_resetPower, "nonpayable", <<"uint256">>),
                   Fn(NAME_toggle, "nonpayable", <<>>), ViewItem>>

\* one state-changing function, named both for the warm-up and in the
\* denylist
UnsafeInitAbi == <<Fn(NAME_addPower, "nonpayable", <<>>), ViewItem>>

Catalogs == {ReadOnlyAbi, EndToEndAbi, RiskyOnlyAbi, NoWarmUpAbi, MixedAbi,
             UnsafeInitAbi}

Modes == {"succeeds", "fails", "any"}

----------------------------------------------------------------------------
(* Math.random(): a rational in [0,1), given as <<numerator, denominator>> *)

MathRandom == {<<k, MaxDraws>> : k \in 0..(MaxDraws - 1)} \cup {<<999, 1000>>}

\* Math.floor(rand * n)
floorRandom(rand, n) == (rand[1] * n) \div rand[2]

WalletAddress == "0xWallet"

----------------------------------------------------------------------------
(* _generateSafeArgument, lines 176-214 *)

\* variants: a divisor range that starts at 0, and a value that depends on
\* how many calls were made before
generateSafeArgument_ZeroDivisor(input, functionName, wallet, rand) ==
    LET lowerFnName == toLowerCase(functionName) IN
    IF input.type = "uint256" THEN
        IF includes(lowerFnName, STR_power) THEN floorRandom(rand, 5) + 2
        ELSE IF includes(lowerFnName, STR_decrement) \/ includes(lowerFnName, STR_subtract)
             THEN floorRandom(rand, 50) + 1
        ELSE IF includes(lowerFnName, STR_divide) THEN floorRandom(rand, 10)
        ELSE IF includes(lowerFnName, STR_increment) \/ includes(lowerFnName, STR_add)
             THEN floorRandom(rand, 100) + 10
        ELSE floorRandom(rand, 200) + 1
    ELSE IF input.type = "address" THEN wallet
    ELSE IF input.type = "string" THEN
        IF includes(lowerFnName, STR_set) THEN <<"set_key_", floorRandom(rand, 100)>>
        ELSE IF includes(lowerFnName, STR_store) THEN <<"store_key_", floorRandom(rand, 100)>>
        ELSE <<"key", floorRandom(rand, 100)>>
    ELSE 0

generateSafeArgument_Counting(input, functionName, wallet, rand) ==
    LET lowerFnName == toLowerCase(functionName) IN
    IF input.type = "uint256" THEN
        IF includes(lowerFnName, STR_power) THEN floorRandom(rand, 5) + 2
        ELSE IF includes(lowerFnName, STR_decrement) \/ includes(lowerFnName, STR_subtract)
             THEN floorRandom(rand, 50) + 1
        ELSE IF includes(lowerFnName, STR_divide) THEN floorRandom(rand, 8) + 2
        ELSE IF includes(lowerFnName, STR_increment) \/ includes(lowerFnName, STR_add)
             THEN floorRandom(rand, 100) + 10
        ELSE floorRandom(rand, 200) + 1
    ELSE IF input.type = "address" THEN wallet
    ELSE IF input.type = "string" THEN
        IF includes(lowerFnName, STR_set) THEN <<"set_key_", synthCount>>
        ELSE IF includes(lowerFnName, STR_store) THEN <<"store_key_", synthCount>>
        ELSE <<"key", synthCount>>
    ELSE 0

generateSafeArgument(input, functionName, wallet, rand) ==
    LET lowerFnName == toLowerCase(functionName) IN
    IF input.type = "uint256" THEN
        IF includes(lowerFnName, STR_power) THEN floorRandom(rand, 5) + 2
        ELSE IF includes(lowerFnName, STR_decrement) \/ includes(lowerFnName, STR_subtract)
             THEN floorRandom(rand, 50) + 1
        ELSE IF includes(lowerFnName, STR_divide) THEN floorRandom(rand, 8) + 2
        ELSE IF includes(lowerFnName, STR_increment) \/ includes(lowerFnName, STR_add)
             THEN floorRandom(rand, 100) + 10
        ELSE floorRandom(rand, 200) + 1
    ELSE IF input.type = "address" THEN wallet
    ELSE IF input.type = "string" THEN
        IF includes(lowerFnName, STR_set) THEN <<"set_key_", floorRandom(rand, 100)>>
        ELSE IF includes(lowerFnName, STR_store) THEN <<"store_key_", floorRandom(rand, 100)>>
        ELSE <<"key", floorRandom(rand, 100)>>
    ELSE 0

\* line 108: one draw per input
generateArguments(fn, wallet, rands) ==
    [k \in 1..Len(fn.inputs) |->
        generateSafeArgument(fn.inputs[k], fn.name, wallet, rands[k])]

----------------------------------------------------------------------------
(* Classification of interface entries, lines 52-74 and 90-95 *)

\* a variant that lets pure functions through
IsWriteFunction_IgnoresPure(item) ==
    /\ item.type = "function"
    /\ item.stateMutability # "view"

\* a variant that lets view functions through
IsWriteFunction_IgnoresView(item) ==
    /\ item.type = "function"
    /\ item.stateMutability # "pure"

IsWriteFunction(item) ==
    /\ item.type = "function"
    /\ item.stateMutability # "view"
    /\ item.stateMutability # "pure"

\* a variant that compares the name as written
IsSafeFunction_CaseSensitive(fn) ==
    ~ \E problem \in problematicFunctions : includes(fn.name, problem)

IsSafeFunction(fn) ==
    ~ \E problem \in problematicFunctions : includes(toLowerCase(fn.name), problem)

IsInitFunction(fn) ==
    \/ includes(toLowerCase(fn.name), STR_set)
    \/ includes(toLowerCase(fn.name), STR_init)
    \/ includes(toLowerCase(fn.name), STR_add)
    \/ includes(toLowerCase(fn.name), STR_increment)

initFunctionsOf(wf) == SelectSeq(wf, IsInitFunction)

----------------------------------------------------------------------------
(* The selection policy, lines 85-103.  The thresholds 0.3 and 0.7 are     *)
(* compared after multiplying both sides by 10.                            *)

\* a variant whose warm-up phase skips the init-named functions
functionPool_SafeFirst(wf, sf, sc, n) ==
    IF sc * 10 < n * 7 THEN
        IF Len(sf) > 0 THEN sf ELSE wf
    ELSE wf

\* variants: a middle phase that uses every write function, a last phase
\* that keeps to the safe functions, a first phase that falls back to every
\* write function
functionPool_SteadyAll(wf, sf, sc, n) ==
    IF sc * 10 < n * 3 THEN
        IF Len(initFunctionsOf(wf)) > 0 THEN initFunctionsOf(wf) ELSE sf
    ELSE wf

functionPool_ClosingSafe(wf, sf, sc, n) ==
    IF sc * 10 < n * 3 THEN
        IF Len(initFunctionsOf(wf)) > 0 THEN initFunctionsOf(wf) ELSE sf
    ELSE IF Len(sf) > 0 THEN sf ELSE wf

functionPool_WarmUpAll(wf, sf, sc, n) ==
    IF sc * 10 < n * 3 THEN
        IF Len(initFunctionsOf(wf)) > 0 THEN initFunctionsOf(wf) ELSE wf
    ELSE IF sc * 10 < n * 7 THEN
        IF Len(sf) > 0 THEN sf ELSE wf
    ELSE wf

functionPool(wf, sf, sc, n) ==
    IF sc * 10 < n * 3 THEN
        IF Len(initFunctionsOf(wf)) > 0 THEN initFunctionsOf(wf) ELSE sf
    ELSE IF sc * 10 < n * 7 THEN
        IF Len(sf) > 0 THEN sf ELSE wf
    ELSE wf

----------------------------------------------------------------------------
(* The loop control, lines 79-82.  retriesLeft is interactionCount * 0.5,  *)
(* a number with one binary digit after the point; the model keeps it in   *)
(* units of 1/Halves so that 1.5 is 3.                                     *)

initialRetries(n) == (n * 5 * Halves) \div 10

\* variants of the loop test: one success too many, and no quota at all
loopCondition_OverQuota(sc, idx, rl, n) == sc <= n /\ (idx < n \/ rl > 0)

loopCondition_NoQuota(sc, idx, rl, n) == idx < n \/ rl > 0

\* a variant without the retry budget
loopCondition_NoRetries(sc, idx, rl, n) == sc < n /\ idx < n

loopCondition(sc, idx, rl, n) == sc < n /\ (idx < n \/ rl > 0)

----------------------------------------------------------------------------
(* Outcome records, lines 120-129 and 141-146 *)

\* a variant that tags a success with the counter itself
successOutcome_SameId(idx, fn, args, receipt, now) ==
    [interactionId |-> idx,
     function |-> fn.name,
     arguments |-> args,
     transactionHash |-> receipt.hash,
     blockNumber |-> receipt.blockNumber,
     gasUsed |-> receipt.gasUsed,
     timestamp |-> now,
     status |-> "success"]

successOutcome(idx, fn, args, receipt, now) ==
    [interactionId |-> idx + 1,
     function |-> fn.name,
     arguments |-> args,
     transactionHash |-> receipt.hash,
     blockNumber |-> receipt.blockNumber,
     gasUsed |-> receipt.gasUsed,
     timestamp |-> now,
     status |-> "success"]

\* a variant that tags a failure with the counter itself
failedOutcome_SameId(idx, message, now) ==
    [interactionId |-> idx,
     error |-> message,
     timestamp |-> now,
     status |-> "failed"]

failedOutcome(idx, message, now) ==
    [interactionId |-> idx + 1,
     error |-> message,
     timestamp |-> now,
     status |-> "failed"]

batchResult(n, sc, rs) == [total |-> n, successful |-> sc, results |-> rs]

----------------------------------------------------------------------------
(* The ledger: what a send and a confirmation can answer *)

SendOutcomes(mode) == IF mode = "succeeds" THEN {"sent"} ELSE {"sent", "error"}

WaitOutcomes(mode) ==
    IF mode = "succeeds" THEN {"confirmed"}
    ELSE IF mode = "fails" THEN {"error"}
    ELSE {"confirmed", "error"}

----------------------------------------------------------------------------
\* no claimFaucet() call is running
FaucetIdle ==
    /\ fpc = "none"
    /\ fMaxRetries = 0
    /\ fProxy = None
    /\ fRetryCount = 0
    /\ fRegion = None
    /\ fAttempts = 0
    /\ fPosts = 0
    /\ fResult = None

\* interact() called on its own: no wallet is being processed
WalletIdle ==
    /\ program = "none"
    /\ config = None
    /\ wallets = <<>>
    /\ deployedStore = <<>>
    /\ walletIndex = 0
    /\ wpc = "none"
    /\ initialBalance = 0
    /\ retryCount = 0
    /\ faucetSuccess = FALSE
    /\ deployedContracts = <<>>
    /\ deployIndex = 0
    /\ functionCount = 0
    /\ deploySuccess = FALSE
    /\ contractIndex = 0
    /\ deployLog = <<>>
    /\ interactLog = <<>>
    /\ processed = <<>>
    /\ interactErrors = 0
    /\ walletErrors = 0

Init ==
    /\ pc = "start"
    /\ \/ /\ interactionCount \in 1..MaxTarget
          /\ abi \in Catalogs
          /\ submitter \in Modes
       \/ /\ interactionCount = EndToEndCount
          /\ abi \in {EndToEndAbi, MixedAbi}
          /\ submitter = "succeeds"
    /\ initStep = 0
    /\ initFailed = FALSE
    /\ writeFunctions = <<>>
    /\ safeFunctions = <<>>
    /\ results = <<>>
    /\ successCount = 0
    /\ i = 0
    /\ retriesLeft = 0
    /\ pending = None
    /\ attempts = 0
    /\ clock = 0
    /\ saved = <<>>
    /\ handed = <<>>
    /\ returned = None
    /\ synthCount = 0
    /\ synthFirst = None
    /\ synthLast = None
    /\ inFlight = 0
    /\ WalletIdle
    /\ FaucetIdle

\* lines 20-31 and 169-172: building the contract handle throws on a
\* malformed contractInfo, and the outer catch rethrows
Start ==
    /\ pc = "start"
    /\ \E wellFormed \in BOOLEAN :
          pc' = IF wellFormed THEN "initializing" ELSE "threw"
    /\ results' = <<>>
    /\ successCount' = 0
    /\ UNCHANGED <<synthVars, faucetVars, walletVars, inFlight, abi,
                   interactionCount,
                   submitter, initStep, initFailed,
                   writeFunctions, safeFunctions, i, retriesLeft, pending,
                   attempts, clock, saved, handed, returned>>

\* a variant whose initialization error leaves interact()
InitializeContractState_Aborts ==
    /\ pc = "initializing"
    /\ \E send \in SendOutcomes(submitter), wait \in WaitOutcomes(submitter) :
          IF send = "sent" /\ wait = "confirmed"
          THEN /\ initStep' = initStep + 1
               /\ pc' = IF initStep + 1 = InitCalls THEN "filter" ELSE "initializing"
               /\ UNCHANGED initFailed
          ELSE /\ initFailed' = TRUE
               /\ pc' = "threw"
               /\ initStep' = 0
    /\ UNCHANGED <<synthVars, faucetVars, walletVars, inFlight, abi,
                   interactionCount,
                   submitter, writeFunctions,
                   safeFunctions, results, successCount, i, retriesLeft,
                   pending, attempts, clock, saved, handed, returned>>

\* a variant that counts a confirmed initialization call as a success
InitializeContractState_Counts ==
    /\ pc = "initializing"
    /\ \E send \in SendOutcomes(submitter), wait \in WaitOutcomes(submitter) :
          IF send = "sent" /\ wait = "confirmed"
          THEN /\ initStep' = initStep + 1
               /\ successCount' = successCount + 1
               /\ pc' = IF initStep + 1 = InitCalls THEN "filter" ELSE "initializing"
               /\ UNCHANGED initFailed
          ELSE /\ initFailed' = TRUE
               /\ UNCHANGED successCount
               /\ pc' = "filter"
               /\ initStep' = 0
    /\ UNCHANGED <<synthVars, faucetVars, walletVars, inFlight, abi,
                   interactionCount,
                   submitter, writeFunctions,
                   safeFunctions, results, i, retriesLeft,
                   pending, attempts, clock, saved, handed, returned>>

\* lines 34-49: setValue and five setPublicNumber calls, one per step;
\* the first error leaves the try block through its catch, where the
\* position in the block is lost
InitializeContractState ==
    /\ pc = "initializing"
    /\ \E send \in SendOutcomes(submitter), wait \in WaitOutcomes(submitter) :
          IF send = "sent" /\ wait = "confirmed"
          THEN /\ initStep' = initStep + 1
               /\ pc' = IF initStep + 1 = InitCalls THEN "filter" ELSE "initializing"
               /\ UNCHANGED initFailed
          ELSE /\ initFailed' = TRUE
               /\ pc' = "filter"
               /\ initStep' = 0
    /\ UNCHANGED <<synthVars, faucetVars, walletVars, inFlight, abi,
                   interactionCount,
                   submitter, writeFunctions,
                   safeFunctions, results, successCount, i, retriesLeft,
                   pending, attempts, clock, saved, handed, returned>>

\* lines 52-80
FilterFunctions ==
    /\ pc = "filter"
    /\ writeFunctions' = SelectSeq(abi, IsWriteFunction)
    /\ IF Len(writeFunctions') = 0
       THEN /\ returned' = batchResult(interactionCount, 0, <<>>)
            /\ pc' = "done"
            /\ UNCHANGED <<safeFunctions, retriesLeft, i>>
       ELSE /\ safeFunctions' = SelectSeq(writeFunctions', IsSafeFunction)
            /\ retriesLeft' = initialRetries(interactionCount)
            /\ i' = 0
            /\ pc' = "loop"
            /\ UNCHANGED returned
    /\ UNCHANGED <<synthVars, faucetVars, walletVars, inFlight, abi,
                   interactionCount,
                   submitter, initStep, initFailed,
                   results, successCount, pending, attempts, clock, saved,
                   handed>>

\* variants of the catch: one that logs retry-budget failures too, one that
\* never spends the retry budget, one that rethrows
catchAttempt_LogsRetries(message) ==
    /\ IF i < interactionCount
       THEN /\ results' = Append(results, failedOutcome(i, message, clock))
            /\ i' = i + 1
            /\ UNCHANGED retriesLeft
       ELSE IF retriesLeft > 0
       THEN /\ retriesLeft' = retriesLeft - Halves
            /\ results' = Append(results, failedOutcome(i, message, clock))
            /\ i' = i + 1
       ELSE UNCHANGED <<results, i, retriesLeft>>
    /\ UNCHANGED successCount
    /\ pending' = None
    /\ inFlight' = IF pending = None THEN inFlight ELSE inFlight - 1
    /\ pc' = "delay"

catchAttempt_KeepsBudget(message) ==
    /\ IF i < interactionCount
       THEN /\ results' = Append(results, failedOutcome(i, message, clock))
            /\ i' = i + 1
            /\ UNCHANGED retriesLeft
       ELSE UNCHANGED <<results, i, retriesLeft>>
    /\ UNCHANGED successCount
    /\ pending' = None
    /\ inFlight' = IF pending = None THEN inFlight ELSE inFlight - 1
    /\ pc' = "delay"

catchAttempt_Rethrows(message) ==
    /\ UNCHANGED <<results, i, retriesLeft, successCount>>
    /\ pending' = None
    /\ inFlight' = IF pending = None THEN inFlight ELSE inFlight - 1
    /\ pc' = "threw"

\* a variant whose retry-budget failure goes straight to the next attempt
catchAttempt_SkipsDelay(message) ==
    /\ IF i < interactionCount
       THEN /\ results' = Append(results, failedOutcome(i, message, clock))
            /\ i' = i + 1
            /\ pc' = "delay"
            /\ UNCHANGED retriesLeft
       ELSE IF retriesLeft > 0
       THEN /\ retriesLeft' = retriesLeft - Halves
            /\ pc' = "loop"
            /\ UNCHANGED <<results, i>>
       ELSE /\ pc' = "delay"
            /\ UNCHANGED <<results, i, retriesLeft>>
    /\ UNCHANGED successCount
    /\ pending' = None
    /\ inFlight' = IF pending = None THEN inFlight ELSE inFlight - 1

\* variants: a regular failure that also spends the retry budget, a
\* retry-budget failure that advances the counter, a regular failure that
\* is counted but not logged
catchAttempt_SpendsBudget(message) ==
    /\ IF i < interactionCount
       THEN /\ results' = Append(results, failedOutcome(i, message, clock))
            /\ i' = i + 1
            /\ retriesLeft' = retriesLeft - Halves
       ELSE IF retriesLeft > 0
       THEN /\ retriesLeft' = retriesLeft - Halves
            /\ UNCHANGED <<results, i>>
       ELSE UNCHANGED <<results, i, retriesLeft>>
    /\ UNCHANGED successCount
    /\ pending' = None
    /\ inFlight' = IF pending = None THEN inFlight ELSE inFlight - 1
    /\ pc' = "delay"

catchAttempt_RetryAdvances(message) ==
    /\ IF i < interactionCount
       THEN /\ results' = Append(results, failedOutcome(i, message, clock))
            /\ i' = i + 1
            /\ UNCHANGED retriesLeft
       ELSE IF retriesLeft > 0
       THEN /\ retriesLeft' = retriesLeft - Halves
            /\ i' = i + 1
            /\ UNCHANGED results
       ELSE UNCHANGED <<results, i, retriesLeft>>
    /\ UNCHANGED successCount
    /\ pending' = None
    /\ inFlight' = IF pending = None THEN inFlight ELSE inFlight - 1
    /\ pc' = "delay"

catchAttempt_DropsFailure(message) ==
    /\ IF i < interactionCount
       THEN /\ i' = i + 1
            /\ UNCHANGED <<results, retriesLeft>>
       ELSE IF retriesLeft > 0
       THEN /\ retriesLeft' = retriesLeft - Halves
            /\ UNCHANGED <<results, i>>
       ELSE UNCHANGED <<results, i, retriesLeft>>
    /\ UNCHANGED successCount
    /\ pending' = None
    /\ inFlight' = IF pending = None THEN inFlight ELSE inFlight - 1
    /\ pc' = "delay"

\* variants: a regular failure that advances the counter by two, and a
\* failure that takes back a success
catchAttempt_CountsTwice(message) ==
    /\ IF i < interactionCount
       THEN /\ results' = Append(results, failedOutcome(i, message, clock))
            /\ i' = i + 2
            /\ UNCHANGED retriesLeft
       ELSE IF retriesLeft > 0
       THEN /\ retriesLeft' = retriesLeft - Halves
            /\ UNCHANGED <<results, i>>
       ELSE UNCHANGED <<results, i, retriesLeft>>
    /\ UNCHANGED successCount
    /\ pending' = None
    /\ inFlight' = IF pending = None THEN inFlight ELSE inFlight - 1
    /\ pc' = "delay"

catchAttempt_UndoesSuccess(message) ==
    /\ IF i < interactionCount
       THEN /\ results' = Append(results, failedOutcome(i, message, clock))
            /\ i' = i + 1
            /\ UNCHANGED retriesLeft
       ELSE IF retriesLeft > 0
       THEN /\ retriesLeft' = retriesLeft - Halves
            /\ UNCHANGED <<results, i>>
       ELSE UNCHANGED <<results, i, retriesLeft>>
    /\ successCount' = IF successCount > 0 THEN successCount - 1 ELSE 0
    /\ pending' = None
    /\ inFlight' = IF pending = None THEN inFlight ELSE inFlight - 1
    /\ pc' = "delay"

\* lines 135-154: the catch of one iteration
catchAttempt(message) ==
    /\ IF i < interactionCount
       THEN /\ results' = Append(results, failedOutcome(i, message, clock))
            /\ i' = i + 1
            /\ UNCHANGED retriesLeft
       ELSE IF retriesLeft > 0
       THEN /\ retriesLeft' = retriesLeft - Halves
            /\ UNCHANGED <<results, i>>
       ELSE UNCHANGED <<results, i, retriesLeft>>
    /\ UNCHANGED successCount
    /\ pending' = None
    /\ inFlight' = IF pending = None THEN inFlight ELSE inFlight - 1
    /\ pc' = "delay"

\* lines 82-116: the loop test, the selection, the arguments and the send
SubmitAttempt ==
    /\ pc = "loop"
    /\ loopCondition(successCount, i, retriesLeft, interactionCount)
    /\ attempts' = attempts + 1
    /\ LET pool == functionPool(writeFunctions, safeFunctions,
                                successCount, interactionCount) IN
       IF Len(pool) = 0
       THEN \* randomFunction is undefined: reading .inputs throws
            catchAttempt("TypeError")
       ELSE \E rand \in MathRandom :
            LET randomFunction == pool[floorRandom(rand, Len(pool)) + 1] IN
            \E rands \in [1..Len(randomFunction.inputs) -> MathRandom],
               send \in SendOutcomes(submitter) :
               IF send = "sent"
               THEN /\ pending' = [fn |-> randomFunction,
                                   args |-> generateArguments(randomFunction,
                                                WalletAddress, rands),
                                   hash |-> attempts + 1]
                    /\ inFlight' = inFlight + 1
                    /\ pc' = "waiting"
                    /\ UNCHANGED <<results, successCount, i, retriesLeft>>
               ELSE catchAttempt("error.message")
    /\ UNCHANGED <<synthVars, faucetVars, walletVars, abi, interactionCount,
                   submitter,
                   initStep, initFailed, writeFunctions, safeFunctions,
                   clock, saved, handed, returned>>

\* lines 117-134: tx.wait() and the record of a success
AwaitReceipt ==
    /\ pc = "waiting"
    /\ \E wait \in WaitOutcomes(submitter) :
          IF wait = "confirmed"
          THEN /\ results' = Append(results,
                      successOutcome(i, pending.fn, pending.args,
                          [hash |-> pending.hash, blockNumber |-> pending.hash,
                           gasUsed |-> "gas"], clock))
               /\ successCount' = successCount + 1
               /\ i' = i + 1
               /\ pending' = None
               /\ inFlight' = inFlight - 1
               /\ pc' = "delay"
               /\ UNCHANGED retriesLeft
          ELSE catchAttempt("error.message")
    /\ UNCHANGED <<synthVars, faucetVars, walletVars, abi, interactionCount,
                   submitter,
                   initStep, initFailed, writeFunctions, safeFunctions,
                   attempts, clock, saved, handed, returned>>

\* line 157
Delay ==
    /\ pc = "delay"
    /\ clock' = clock + 1
    /\ pc' = "loop"
    /\ UNCHANGED <<synthVars, faucetVars, walletVars, inFlight, abi,
                   interactionCount,
                   submitter, initStep, initFailed,
                   writeFunctions, safeFunctions, results, successCount, i,
                   retriesLeft, pending, attempts, saved, handed, returned>>

\* lines 216-226: the write may fail; the error is logged, not raised
saveInteractions(rs, written) ==
    /\ handed' = Append(handed, rs)
    /\ saved' = IF written THEN Append(saved, rs) ELSE saved

\* a variant in which a failed write of the log leaves interact()
Finish_SaveRaises ==
    /\ pc = "loop"
    /\ ~ loopCondition(successCount, i, retriesLeft, interactionCount)
    /\ \E written \in BOOLEAN :
          /\ saveInteractions(results, written)
          /\ IF written
             THEN /\ returned' = batchResult(interactionCount, successCount, results)
                  /\ pc' = "done"
             ELSE /\ pc' = "threw"
                  /\ UNCHANGED returned
    /\ UNCHANGED <<synthVars, faucetVars, walletVars, inFlight, abi,
                   interactionCount,
                   submitter, initStep, initFailed,
                   writeFunctions, safeFunctions, results, successCount, i,
                   retriesLeft, pending, attempts, clock>>

\* lines 82 and 160-168: the loop test fails, the log is saved, the
\* batch result is returned
Finish ==
    /\ pc = "loop"
    /\ ~ loopCondition(successCount, i, retriesLeft, interactionCount)
    /\ \E written \in BOOLEAN : saveInteractions(results, written)
    /\ returned' = batchResult(interactionCount, successCount, results)
    /\ pc' = "done"
    /\ UNCHANGED <<synthVars, faucetVars, walletVars, inFlight, abi,
                   interactionCount,
                   submitter, initStep, initFailed,
                   writeFunctions, safeFunctions, results, successCount, i,
                   retriesLeft, pending, attempts, clock>>

Next ==
    \/ Start
    \/ InitializeContractState
    \/ FilterFunctions
    \/ SubmitAttempt
    \/ AwaitReceipt
    \/ Delay
    \/ Finish

Spec == Init /\ [][Next]_vars

\* the runs used for termination: every count and ledger behaviour, on the
\* interfaces whose arguments need no random draw
LiveInit ==
    /\ Init
    /\ interactionCount \in 1..MaxTarget
    /\ abi \in {ReadOnlyAbi, EndToEndAbi, RiskyOnlyAbi}

\* every await of interact() eventually resumes: the ledger client answers
\* or times out, and timers fire
FairSpec == LiveInit /\ [][Next]_vars /\ WF_vars(Next)

----------------------------------------------------------------------------
(* The synthesizer on its own: _generateSafeArgument called with every      *)
(* parameter type, a set of function names and the sampled random draws.    *)

SynthNames == {NAME_powerBoost, NAME_decrementTotal, NAME_divideShare,
               NAME_subtractFee, NAME_IncrementBy, NAME_addTotal,
               NAME_addPower, NAME_setValue, NAME_storeData, NAME_toggle}

\* every name with a uint256 parameter, the three key prefixes with a
\* string parameter, and the two remaining kinds of parameter
SynthInputs ==
    ({"uint256"} \X SynthNames)
        \cup ({"string"} \X {NAME_setValue, NAME_storeData, NAME_toggle})
        \cup ({"address", "bool"} \X {NAME_toggle})

SynthInit ==
    /\ pc = "idle"
    /\ interactionCount = 0
    /\ abi = <<>>
    /\ submitter = "any"
    /\ initStep = 0
    /\ initFailed = FALSE
    /\ writeFunctions = <<>>
    /\ safeFunctions = <<>>
    /\ results = <<>>
    /\ successCount = 0
    /\ i = 0
    /\ retriesLeft = 0
    /\ pending = None
    /\ attempts = 0
    /\ clock = 0
    /\ saved = <<>>
    /\ handed = <<>>
    /\ returned = None
    /\ synthCount = 0
    /\ synthFirst = None
    /\ synthLast = None
    /\ inFlight = 0
    /\ WalletIdle
    /\ FaucetIdle

\* one call of _generateSafeArgument, lines 176-214
Synthesize ==
    /\ synthCount < MaxSynthCalls
    /\ \E input \in SynthInputs, rand \in MathRandom :
          LET type == input[1]
              name == input[2]
              call == [type |-> type, name |-> name, wallet |-> WalletAddress,
                       rand |-> rand,
                       value |-> generateSafeArgument([type |-> type], name,
                                                      WalletAddress, rand)] IN
          /\ synthLast' = call
          /\ synthFirst' = IF synthCount = 0 THEN call ELSE synthFirst
    /\ synthCount' = synthCount + 1
    /\ UNCHANGED <<interactVars, walletVars, faucetVars, inFlight>>

SynthNext == Synthesize

SynthSpec == SynthInit /\ [][SynthNext]_vars

-----------------------------------------------------------------------------
(* main and processWallet of the deploy-and-interact program, main and
   interactWithExistingContracts of the interact-only program *)

MinBalance == 5
MaxFaucetRetries == 3
MaxDeployRetries == 3
DefaultFunctionCount == 120

\* the balances a wallet may report, in tenths of ETH
Balances == {0, 2, MinBalance}

\* value || fallback
OrDefault(value, fallback) == IF value = 0 THEN fallback ELSE value

ADDR_A == <<"0", "x", "A", "b", "1">>
ADDR_B == <<"0", "x", "C", "d", "2">>

\* the compiled interface of a generated contract, reduced to one
\* state-changing function without parameters and one view
GeneratedAbi == <<Fn(NAME_toggle, "nonpayable", <<>>), ViewItem>>

\* the record deployContract builds; old is TRUE for a record loaded from
\* the deployments folder (deployedAt before this run)
DeployedContract(walletAddress, contractAddress, count, old) ==
    [address |-> contractAddress, abi |-> GeneratedAbi,
     wallet |-> walletAddress, functionCount |-> count, loaded |-> old]

\* what loadPreviousDeployments may find: nothing, one contract of wallet A
\* (its address recorded in lower case), or one of each wallet
PreviousDeployments ==
    { <<>>,
      <<DeployedContract(toLowerCase(ADDR_A), 1, DefaultFunctionCount, TRUE)>>,
      <<DeployedContract(toLowerCase(ADDR_A), 1, DefaultFunctionCount, TRUE),
        DeployedContract(ADDR_B, 2, DefaultFunctionCount, TRUE)>> }

WalletLists == {<<ADDR_A>>, <<ADDR_B, ADDR_A>>}

Configs ==
    { [skipDeploy |-> s, onlyExisting |-> o, deployCount |-> d,
       functionCount |-> DefaultFunctionCount,
       interactionCount |-> 1, minBalance |-> MinBalance] :
      s \in BOOLEAN, o \in BOOLEAN, d \in {0, 2} }

\* a variant that returns every stored contract
getDeployedContractsByWallet_AnyWallet(store, walletAddress) ==
    store

getDeployedContractsByWallet(store, walletAddress) ==
    LET ByWallet(contract) ==
            toLowerCase(contract.wallet) = toLowerCase(walletAddress)
    IN  SelectSeq(store, ByWallet)

\* no interact() call is running
InteractIdle ==
    /\ pc = "idle"
    /\ abi = <<>>
    /\ interactionCount = 0
    /\ initStep = 0
    /\ initFailed = FALSE
    /\ writeFunctions = <<>>
    /\ safeFunctions = <<>>
    /\ results = <<>>
    /\ successCount = 0
    /\ i = 0
    /\ retriesLeft = 0
    /\ pending = None
    /\ attempts = 0
    /\ clock = 0
    /\ saved = <<>>
    /\ handed = <<>>
    /\ returned = None

WalletInit ==
    /\ program \in {"index", "interactOnly"}
    /\ config \in Configs
    /\ wallets \in WalletLists
    /\ deployedStore \in PreviousDeployments
    /\ walletIndex = 0
    /\ wpc = "main"
    /\ initialBalance = 0
    /\ retryCount = 0
    /\ faucetSuccess = FALSE
    /\ deployedContracts = <<>>
    /\ deployIndex = 0
    /\ functionCount = 0
    /\ deploySuccess = FALSE
    /\ contractIndex = 0
    /\ deployLog = <<>>
    /\ interactLog = <<>>
    /\ processed = <<>>
    /\ interactErrors = 0
    /\ walletErrors = 0
    /\ InteractIdle
    /\ submitter = "any"
    /\ FaucetIdle
    /\ inFlight = 0
    /\ synthCount = 0
    /\ synthFirst = None
    /\ synthLast = None

\* the locals of processWallet at its entry
EnterWallet ==
    /\ initialBalance' = 0
    /\ retryCount' = 0
    /\ faucetSuccess' = FALSE
    /\ deployedContracts' = <<>>
    /\ deployIndex' = 0
    /\ functionCount' = 0
    /\ deploySuccess' = FALSE
    /\ contractIndex' = 0
    /\ deployLog' = <<>>
    /\ interactLog' = <<>>
    /\ interactErrors' = 0

\* the function returns, by return or by falling off its end
ReturnWallet ==
    /\ wpc' = "returned"
    /\ processed' = Append(processed, walletIndex)
    /\ UNCHANGED walletErrors

\* the function returns through its outer catch
CatchWallet ==
    /\ wpc' = "returned"
    /\ processed' = Append(processed, walletIndex)
    /\ walletErrors' = walletErrors + 1

\* main up to its wallet loop: the interact-only program forces both
\* switches and exits when no deployment was loaded
MainStart ==
    /\ wpc = "main"
    /\ IF program = "interactOnly"
       THEN /\ config' = [config EXCEPT !.skipDeploy = TRUE,
                                        !.onlyExisting = TRUE]
            /\ wpc' = IF Len(deployedStore) = 0 THEN "exit" ELSE "balance"
       ELSE /\ wpc' = "balance"
            /\ UNCHANGED config
    /\ UNCHANGED <<interactVars, synthVars, faucetVars, inFlight,
                   interactErrors, walletErrors, program, wallets,
                   deployedStore, walletIndex, initialBalance, retryCount,
                   faucetSuccess, deployedContracts, deployIndex,
                   functionCount, deploySuccess, contractIndex, deployLog,
                   interactLog, processed>>

\* await wallet.getBalance() and the test of the balance; a throw reaches
\* the outer catch
CheckBalance ==
    /\ wpc = "balance"
    /\ \E threw \in BOOLEAN, balance \in Balances :
          IF threw
          THEN /\ CatchWallet
               /\ UNCHANGED initialBalance
          ELSE /\ initialBalance' = balance
               /\ wpc' = IF program = "interactOnly" THEN "existing"
                         ELSE IF balance < config.minBalance THEN "faucet"
                         ELSE "lookup"
               /\ UNCHANGED <<processed, walletErrors>>
    /\ UNCHANGED <<interactVars, synthVars, faucetVars, inFlight,
                   interactErrors, program,
                   config, wallets,
                   deployedStore, walletIndex, retryCount,
                   faucetSuccess, deployedContracts, deployIndex,
                   functionCount, deploySuccess, contractIndex, deployLog,
                   interactLog>>

\* a variant that goes on after the last failed claim whatever the balance
ClaimFaucet_NeverSkips ==
    /\ wpc = "faucet"
    /\ IF ~ faucetSuccess /\ retryCount < MaxFaucetRetries
       THEN \E outcome \in {"success", "balanceThrows", "failed", "threw"} :
                  CASE outcome = "success" ->
                          /\ faucetSuccess' = TRUE
                          /\ UNCHANGED <<retryCount, wpc, processed,
                                         walletErrors>>
                    [] outcome = "balanceThrows" ->
                          /\ CatchWallet
                          /\ UNCHANGED <<retryCount, faucetSuccess>>
                    [] OTHER ->
                          /\ retryCount' = retryCount + 1
                          /\ UNCHANGED <<wpc, processed, faucetSuccess,
                                         walletErrors>>
       ELSE /\ wpc' = "lookup"
            /\ retryCount' = 0
            /\ faucetSuccess' = FALSE
            /\ UNCHANGED <<processed, walletErrors>>
    /\ UNCHANGED <<interactVars, synthVars, faucetVars, inFlight,
                   interactErrors, program,
                   config, wallets,
                   deployedStore, walletIndex, initialBalance,
                   deployedContracts, deployIndex,
                   functionCount, deploySuccess, contractIndex, deployLog,
                   interactLog>>

\* one iteration of the faucet loop
ClaimFaucet ==
    /\ wpc = "faucet"
    /\ IF ~ faucetSuccess /\ retryCount < MaxFaucetRetries
       THEN \E outcome \in {"success", "balanceThrows", "failed", "threw"} :
                  CASE outcome = "success" ->
                          /\ faucetSuccess' = TRUE
                          /\ UNCHANGED <<retryCount, wpc, processed,
                                         walletErrors>>
                    [] outcome = "balanceThrows" ->
                          /\ CatchWallet
                          /\ UNCHANGED <<retryCount, faucetSuccess>>
                    [] OTHER ->
                          /\ retryCount' = retryCount + 1
                          /\ IF retryCount + 1 >= MaxFaucetRetries
                                /\ initialBalance = 0
                             THEN ReturnWallet
                             ELSE UNCHANGED <<wpc, processed, walletErrors>>
                          /\ UNCHANGED faucetSuccess
       ELSE \* the block ends and its locals with it
            /\ wpc' = "lookup"
            /\ retryCount' = 0
            /\ faucetSuccess' = FALSE
            /\ UNCHANGED <<processed, walletErrors>>
    /\ UNCHANGED <<interactVars, synthVars, faucetVars, inFlight,
                   interactErrors, program,
                   config, wallets,
                   deployedStore, walletIndex, initialBalance,
                   deployedContracts, deployIndex,
                   functionCount, deploySuccess, contractIndex, deployLog,
                   interactLog>>

\* processWallet, the choice between existing contracts and deployment
LookupContracts ==
    /\ wpc = "lookup"
    /\ initialBalance' = 0    \* not read from here on
    /\ IF config.skipDeploy \/ config.onlyExisting
       THEN LET found == getDeployedContractsByWallet(deployedStore,
                             wallets[walletIndex + 1]) IN
            /\ deployedContracts' = found
            /\ IF Len(found) = 0 /\ config.onlyExisting
               THEN ReturnWallet
               ELSE /\ wpc' = IF Len(found) = 0 /\ ~ config.onlyExisting
                              THEN "deploy" ELSE "interact"
                    /\ UNCHANGED <<processed, walletErrors>>
       ELSE /\ wpc' = IF ~ config.onlyExisting THEN "deploy" ELSE "interact"
            /\ UNCHANGED <<deployedContracts, processed, walletErrors>>
    /\ UNCHANGED <<interactVars, synthVars, faucetVars, inFlight,
                   interactErrors, program,
                   config, wallets,
                   deployedStore, walletIndex, retryCount,
                   faucetSuccess, deployIndex, functionCount, deploySuccess,
                   contractIndex, deployLog, interactLog>>

\* interactWithExistingContracts, the lookup and its early return
LookupExisting ==
    /\ wpc = "existing"
    /\ initialBalance' = 0    \* not read from here on
    /\ LET found == getDeployedContractsByWallet(deployedStore,
                        wallets[walletIndex + 1]) IN
       /\ deployedContracts' = found
       /\ IF Len(found) = 0
          THEN ReturnWallet
          ELSE /\ wpc' = "interact"
               /\ UNCHANGED <<processed, walletErrors>>
    /\ UNCHANGED <<interactVars, synthVars, faucetVars, inFlight,
                   interactErrors, program,
                   config, wallets,
                   deployedStore, walletIndex, retryCount,
                   faucetSuccess, deployIndex, functionCount, deploySuccess,
                   contractIndex, deployLog, interactLog>>

\* the head of the deploy loop: the locals of one contract
DeployLoop ==
    /\ wpc = "deploy"
    /\ IF deployIndex < OrDefault(config.deployCount, 1)
       THEN /\ functionCount' = OrDefault(config.functionCount, 100)
            /\ retryCount' = 0
            /\ deploySuccess' = FALSE
            /\ wpc' = "deployTry"
       ELSE \* the loop ends and the locals of its body with it
            /\ wpc' = "interact"
            /\ functionCount' = 0
            /\ retryCount' = 0
            /\ deploySuccess' = FALSE
    /\ UNCHANGED <<interactVars, synthVars, faucetVars, inFlight,
                   interactErrors, walletErrors, program,
                   config, wallets,
                   deployedStore, walletIndex, initialBalance, faucetSuccess,
                   deployedContracts, deployIndex, contractIndex, deployLog,
                   interactLog, processed>>

\* a variant that rounds up
reducedFunctionCount_RoundsUp(count) == (count * 8 + 9) \div 10

\* Math.floor(functionCount * 0.8)
reducedFunctionCount(count) == (count * 8) \div 10

\* one pass of the retry loop up to the sending of the deployment, or the
\* end of the loop and the step to the next contract
DeployCall ==
    /\ wpc = "deployTry"
    /\ IF ~ deploySuccess /\ retryCount < MaxDeployRetries
       THEN LET count == IF retryCount > 0
                         THEN reducedFunctionCount(functionCount)
                         ELSE functionCount IN
            /\ functionCount' = count
            /\ deployLog' = Append(deployLog, count)
            /\ \E send \in SendOutcomes(submitter) :
                  IF send = "sent"
                  THEN /\ inFlight' = inFlight + 1
                       /\ wpc' = "deployWait"
                       /\ UNCHANGED retryCount
                  ELSE /\ retryCount' = retryCount + 1
                       /\ UNCHANGED <<inFlight, wpc>>
            /\ UNCHANGED deployIndex
       ELSE /\ deployIndex' = deployIndex + 1
            /\ wpc' = "deploy"
            /\ UNCHANGED <<functionCount, deployLog, inFlight, retryCount>>
    /\ UNCHANGED <<interactVars, synthVars, faucetVars,
                   interactErrors, walletErrors, program, config, wallets,
                   deployedStore, walletIndex, initialBalance, faucetSuccess,
                   deployedContracts, deploySuccess, contractIndex,
                   interactLog, processed>>

\* a variant that returns from the deployment without waiting for it
DeployWait_NoAwait ==
    /\ wpc = "deployWait"
    /\ LET deployedContract ==
               DeployedContract(wallets[walletIndex + 1],
                                Len(deployedStore) + 1, functionCount, FALSE) IN
       /\ deployedStore' = Append(deployedStore, deployedContract)
       /\ deployedContracts' = Append(deployedContracts, deployedContract)
       /\ deploySuccess' = TRUE
       /\ UNCHANGED <<retryCount, inFlight>>
    /\ wpc' = "deployTry"
    /\ UNCHANGED <<interactVars, synthVars, faucetVars,
                   interactErrors, walletErrors, program, config, wallets,
                   walletIndex, initialBalance, faucetSuccess, deployIndex,
                   functionCount, contractIndex, deployLog, interactLog, processed>>

\* deployContract from the wait for the receipt on, and the push or the
\* catch in processWallet
DeployWait ==
    /\ wpc = "deployWait"
    /\ \E wait \in WaitOutcomes(submitter) :
          IF wait = "confirmed"
          THEN LET deployedContract ==
                       DeployedContract(wallets[walletIndex + 1],
                                        Len(deployedStore) + 1, functionCount,
                                        FALSE) IN
               /\ deployedStore' = Append(deployedStore, deployedContract)
               /\ deployedContracts' = Append(deployedContracts, deployedContract)
               /\ deploySuccess' = TRUE
               /\ UNCHANGED retryCount
          ELSE /\ retryCount' = retryCount + 1
               /\ UNCHANGED <<deployedStore, deployedContracts, deploySuccess>>
    /\ inFlight' = inFlight - 1
    /\ wpc' = "deployTry"
    /\ UNCHANGED <<interactVars, synthVars, faucetVars,
                   interactErrors, walletErrors, program, config, wallets,
                   walletIndex, initialBalance, faucetSuccess, deployIndex,
                   functionCount, contractIndex, deployLog, interactLog, processed>>

\* the head of the loop over deployedContracts: the call of interact, or
\* the end of the loop
CallInteract ==
    /\ wpc = "interact"
    /\ IF contractIndex < Len(deployedContracts)
       THEN LET contract == deployedContracts[contractIndex + 1] IN
            /\ interactLog' = Append(interactLog, contract.address)
            /\ abi' = contract.abi
            /\ interactionCount' = OrDefault(config.interactionCount, 10)
            /\ pc' = "start"
            /\ wpc' = "interacting"
       ELSE /\ wpc' = "final"
            /\ UNCHANGED <<interactLog, abi, interactionCount, pc>>
    /\ UNCHANGED <<synthVars, faucetVars, inFlight, submitter, initStep, initFailed,
                   writeFunctions, safeFunctions, results, successCount, i,
                   retriesLeft, pending, attempts, clock, saved, handed, returned,
                   interactErrors, walletErrors, program, config, wallets, deployedStore, walletIndex,
                   initialBalance, retryCount, faucetSuccess,
                   deployedContracts, deployIndex, functionCount,
                   deploySuccess, contractIndex, deployLog,
                   processed>>

\* a variant without the try/catch around the call: an exception of
\* interact reaches the outer catch
ReturnInteract_Propagates ==
    /\ wpc = "interacting"
    /\ pc \in {"done", "threw"}
    /\ IF pc = "threw"
       THEN CatchWallet
       ELSE /\ wpc' = "contractDelay"
            /\ UNCHANGED <<processed, walletErrors>>
    /\ UNCHANGED interactErrors
    /\ pc' = "idle"
    /\ abi' = <<>>
    /\ interactionCount' = 0
    /\ initStep' = 0
    /\ initFailed' = FALSE
    /\ writeFunctions' = <<>>
    /\ safeFunctions' = <<>>
    /\ results' = <<>>
    /\ successCount' = 0
    /\ i' = 0
    /\ retriesLeft' = 0
    /\ pending' = None
    /\ attempts' = 0
    /\ clock' = 0
    /\ saved' = <<>>
    /\ handed' = <<>>
    /\ returned' = None
    /\ UNCHANGED <<synthVars, faucetVars, inFlight, submitter,
                   program, config,
                   wallets,
                   deployedStore, walletIndex, initialBalance, retryCount,
                   faucetSuccess, deployedContracts, deployIndex,
                   functionCount, deploySuccess, contractIndex, deployLog,
                   interactLog>>

\* interact has returned or thrown: the try/catch around the call
ReturnInteract ==
    /\ wpc = "interacting"
    /\ pc \in {"done", "threw"}
    /\ wpc' = "contractDelay"
    /\ interactErrors' = IF pc = "threw" THEN interactErrors + 1
                         ELSE interactErrors
    /\ pc' = "idle"
    /\ abi' = <<>>
    /\ interactionCount' = 0
    /\ initStep' = 0
    /\ initFailed' = FALSE
    /\ writeFunctions' = <<>>
    /\ safeFunctions' = <<>>
    /\ results' = <<>>
    /\ successCount' = 0
    /\ i' = 0
    /\ retriesLeft' = 0
    /\ pending' = None
    /\ attempts' = 0
    /\ clock' = 0
    /\ saved' = <<>>
    /\ handed' = <<>>
    /\ returned' = None
    /\ UNCHANGED <<synthVars, faucetVars, inFlight, submitter,
                   walletErrors, program, config,
                   wallets,
                   deployedStore, walletIndex, initialBalance, retryCount,
                   faucetSuccess, deployedContracts, deployIndex,
                   functionCount, deploySuccess, contractIndex, deployLog,
                   interactLog, processed>>

\* the sleep between two contracts
ContractDelay ==
    /\ wpc = "contractDelay"
    /\ contractIndex' = contractIndex + 1
    /\ wpc' = "interact"
    /\ UNCHANGED <<interactVars, synthVars, faucetVars, inFlight,
                   interactErrors, walletErrors, program,
                   config, wallets,
                   deployedStore, walletIndex, initialBalance, retryCount,
                   faucetSuccess, deployedContracts, deployIndex,
                   functionCount, deploySuccess, deployLog, interactLog, processed>>

\* the final balance; the function ends whether or not the query throws
FinalBalance ==
    /\ wpc = "final"
    /\ \E threw \in BOOLEAN : IF threw THEN CatchWallet ELSE ReturnWallet
    /\ UNCHANGED <<interactVars, synthVars, faucetVars, inFlight,
                   interactErrors, program,
                   config, wallets,
                   deployedStore, walletIndex, initialBalance, retryCount,
                   faucetSuccess, deployedContracts, deployIndex,
                   functionCount, deploySuccess, contractIndex, deployLog,
                   interactLog>>

\* main's loop over the wallets: the sleep and the next call, or the end
NextWallet ==
    /\ wpc = "returned"
    /\ IF walletIndex < Len(wallets) - 1
       THEN /\ walletIndex' = walletIndex + 1
            /\ wpc' = "balance"
            /\ EnterWallet
       ELSE /\ wpc' = "exit"
            /\ UNCHANGED <<walletIndex, initialBalance, retryCount,
                           faucetSuccess, deployedContracts, deployIndex,
                           functionCount, deploySuccess, contractIndex,
                           deployLog, interactLog, interactErrors>>
    /\ UNCHANGED <<interactVars, synthVars, faucetVars, inFlight,
                   walletErrors, program,
                   config, wallets,
                   deployedStore, processed>>

WalletNext ==
    \/ MainStart
    \/ CheckBalance
    \/ ClaimFaucet
    \/ LookupContracts
    \/ LookupExisting
    \/ DeployLoop
    \/ DeployCall
    \/ DeployWait
    \/ CallInteract
    \/ Start
    \/ InitializeContractState
    \/ FilterFunctions
    \/ SubmitAttempt
    \/ AwaitReceipt
    \/ Delay
    \/ Finish
    \/ ReturnInteract
    \/ ContractDelay
    \/ FinalBalance
    \/ NextWallet

WalletSpec == WalletInit /\ [][WalletNext]_vars

-----------------------------------------------------------------------------
(* FaucetService.claimFaucet *)

STR_country  == <<"c","o","u","n","t","r","y","-">>
STR_iproyal  == <<"i","p","r","o","y","a","l">>
STR_geo_as   == <<"g","e","o","-","a","s">>
STR_geo_eu   == <<"g","e","o","-","e","u">>
STR_geo_us   == <<"g","e","o","-","u","s">>
REGION_sg    == <<"s","g">>
REGION_uk    == <<"u","k">>
REGION_us    == <<"u","s">>

\* proxy URLs, reduced to the parts claimFaucet looks at
PROXY_countryUS == <<"c","o","u","n","t","r","y","-","U","S",":","h">>
PROXY_country9  == <<"C","o","u","n","t","r","y","-","9","9">>
PROXY_royalEu   == <<"i","p","r","o","y","a","l",".","g","e","o","-","e","u">>
PROXY_royal     == <<"i","p","r","o","y","a","l">>

Proxies == {None, PROXY_countryUS, PROXY_country9, PROXY_royalEu, PROXY_royal}

IsLetter(c) ==
    \E k \in 1..Len(UpperChars) : UpperChars[k] = c \/ LowerChars[k] = c

\* the positions where /country-([A-Z]{2})/i matches
countryMatches(proxy) ==
    {k \in 1..(Len(proxy) - Len(STR_country) - 1) :
        /\ toLowerCase(SubSeq(proxy, k, k + Len(STR_country) - 1)) = STR_country
        /\ IsLetter(proxy[k + Len(STR_country)])
        /\ IsLetter(proxy[k + Len(STR_country) + 1])}

\* the first match's group, or None
countryMatch(proxy) ==
    IF countryMatches(proxy) = {} THEN None
    ELSE LET k == CHOOSE m \in countryMatches(proxy) :
                      \A n \in countryMatches(proxy) : m <= n
         IN  SubSeq(proxy, k + Len(STR_country), k + Len(STR_country) + 1)

\* the region claimFaucet works out before it asks for a captcha
regionOf(proxy, defaultRegion) ==
    LET fromCountry ==
            IF proxy # None /\ includes(toLowerCase(proxy), STR_country)
                  /\ countryMatch(proxy) # None
            THEN toLowerCase(countryMatch(proxy))
            ELSE None
        fromGeo ==
            IF proxy # None /\ includes(proxy, STR_iproyal) /\ fromCountry = None
            THEN IF includes(proxy, STR_geo_as) THEN REGION_sg
                 ELSE IF includes(proxy, STR_geo_eu) THEN REGION_uk
                 ELSE IF includes(proxy, STR_geo_us) THEN REGION_us
                 ELSE None
            ELSE fromCountry
    IN  IF fromGeo = None THEN defaultRegion ELSE fromGeo

\* the values of faucet.maxRetries in the configuration; 0 stands for a
\* missing entry
FaucetRetrySettings == {0, 1, 2}

FaucetInit ==
    /\ fpc = "loop"
    /\ \E setting \in FaucetRetrySettings :
          fMaxRetries = OrDefault(setting, 3)
    /\ fProxy \in Proxies
    /\ fRetryCount = 0
    /\ fRegion = None
    /\ fAttempts = 0
    /\ fPosts = 0
    /\ fResult = None
    /\ InteractIdle
    /\ submitter = "any"
    /\ WalletIdle
    /\ inFlight = 0
    /\ synthCount = 0
    /\ synthFirst = None
    /\ synthLast = None

\* a variant whose last failure leaves claimFaucet as an exception
catchClaim_Rethrows(message) ==
    /\ fRetryCount' = fRetryCount + 1
    /\ IF fRetryCount + 1 < fMaxRetries
       THEN /\ fpc' = "backoff"
            /\ UNCHANGED fResult
       ELSE /\ fpc' = "threw"
            /\ UNCHANGED fResult

\* the catch of one iteration
catchClaim(message) ==
    /\ fRetryCount' = fRetryCount + 1
    /\ IF fRetryCount + 1 < fMaxRetries
       THEN /\ fpc' = "backoff"
            /\ UNCHANGED fResult
       ELSE /\ fpc' = "returned"
            /\ fResult' = [success |-> FALSE, error |-> message]

\* the loop test and the region, or the return after the loop
BeginClaim ==
    /\ fpc = "loop"
    /\ IF fRetryCount < fMaxRetries
       THEN /\ fAttempts' = fAttempts + 1
            /\ fRegion' = regionOf(fProxy, REGION_sg)
            /\ fpc' = "captcha"
            /\ UNCHANGED fResult
       ELSE /\ fpc' = "returned"
            /\ fResult' = [success |-> FALSE,
                           error |-> "Failed to claim faucet"]
            /\ UNCHANGED <<fAttempts, fRegion>>
    /\ UNCHANGED <<interactVars, synthVars, walletVars, inFlight, fMaxRetries,
                   fProxy, fRetryCount, fPosts>>

\* await nocaptcha.solveHCaptcha: a result with a token, or its last error
SolveCaptcha ==
    /\ fpc = "captcha"
    /\ \E solved \in BOOLEAN :
          IF solved
          THEN /\ fpc' = "delay"
               /\ UNCHANGED <<fRetryCount, fResult>>
          ELSE catchClaim("captcha error")
    /\ UNCHANGED <<interactVars, synthVars, walletVars, inFlight, fMaxRetries,
                   fProxy, fRegion, fAttempts, fPosts>>

\* the delay before the request
ClaimDelay ==
    /\ fpc = "delay"
    /\ fpc' = "post"
    /\ UNCHANGED <<interactVars, synthVars, walletVars, inFlight, fMaxRetries,
                   fProxy, fRetryCount, fRegion, fAttempts, fPosts, fResult>>

\* await axios.post: a message, a body without one, or an HTTP error
PostClaim ==
    /\ fpc = "post"
    /\ fPosts' = fPosts + 1
    /\ \E answer \in {"msg", "no msg", "http error"} :
          IF answer = "msg"
          THEN /\ fpc' = "returned"
               /\ fResult' = [success |-> TRUE, txHash |-> "hash",
                              message |-> "msg"]
               /\ UNCHANGED fRetryCount
          ELSE catchClaim(answer)
    /\ UNCHANGED <<interactVars, synthVars, walletVars, inFlight, fMaxRetries,
                   fProxy, fRegion, fAttempts>>

\* the growing delay before the next attempt
ClaimBackoff ==
    /\ fpc = "backoff"
    /\ fpc' = "loop"
    /\ UNCHANGED <<interactVars, synthVars, walletVars, inFlight, fMaxRetries,
                   fProxy, fRetryCount, fRegion, fAttempts, fPosts, fResult>>

FaucetNext ==
    \/ BeginClaim
    \/ SolveCaptcha
    \/ ClaimDelay
    \/ PostClaim
    \/ ClaimBackoff

FaucetSpec == FaucetInit /\ [][FaucetNext]_vars

TypeOK ==
    /\ pc \in {"start", "initializing", "filter", "loop", "waiting", "delay",
               "done", "threw"}
    /\ successCount \in Nat /\ i \in Nat /\ attempts \in Nat
    /\ retriesLeft \in Int

----------------------------------------------------------------------------
(* Vocabulary of the properties *)

LoopStates == {"loop", "waiting", "delay"}

\* the interface has a state-changing function
HasWriteFunction ==
    \E k \in 1..Len(abi) :
        /\ abi[k].type = "function"
        /\ abi[k].stateMutability \notin {"view", "pure"}

\* the interface has a state-changing function outside the denylist
HasSafeWriteFunction ==
    \E k \in 1..Len(abi) :
        /\ abi[k].type = "function"
        /\ abi[k].stateMutability \notin {"view", "pure"}
        /\ \A problem \in {STR_power, STR_decrement, STR_pop, STR_divide} :
              ~ includes(toLowerCase(abi[k].name), problem)

WarmUpName(name) ==
    \E hint \in {STR_set, STR_init, STR_add, STR_increment} :
        includes(toLowerCase(name), hint)

HasWarmUpFunction ==
    \E k \in 1..Len(abi) :
        /\ abi[k].type = "function"
        /\ abi[k].stateMutability \notin {"view", "pure"}
        /\ WarmUpName(abi[k].name)

AllStatus(rs, st) == \A k \in 1..Len(rs) : rs[k].status = st

----------------------------------------------------------------------------
\* C1: with N >= 1, a write function outside the denylist in the catalog
\* and a Submitter that succeeds on every call, interact returns with
\* successful = N, the attempt counter at N, exactly N outcomes, all of
\* status 'success'.
C1_AllSucceed ==
    (pc = "done" /\ submitter = "succeeds" /\ interactionCount >= 1
        /\ HasSafeWriteFunction)
    => /\ returned.successful = interactionCount
       /\ i = interactionCount
       /\ Len(returned.results) = interactionCount
       /\ AllStatus(returned.results, "success")

C1_Witness ==
    /\ pc = "done" /\ submitter = "succeeds" /\ HasSafeWriteFunction
    /\ interactionCount >= 2
    /\ returned.successful = interactionCount
    /\ abi = NoWarmUpAbi

\* C2: with a Submitter that fails on every call, a run that entered the
\* loop ends after exactly N + floor(N * 0.5) iterations.
C2_FailingAttempts ==
    (pc = "done" /\ submitter = "fails" /\ HasWriteFunction)
    => attempts = interactionCount + ((interactionCount * 5) \div 10)

\* C3: with a Submitter that fails on every call, a run that entered the
\* loop returns successful = 0 and exactly N outcomes, all of status
\* 'failed': the retry-budget attempts add no outcome.
C3_FailingResult ==
    (pc = "done" /\ submitter = "fails" /\ HasWriteFunction)
    => /\ returned.successful = 0
       /\ Len(returned.results) = interactionCount
       /\ AllStatus(returned.results, "failed")

C3_Witness ==
    /\ pc = "done" /\ submitter = "fails" /\ HasWriteFunction
    /\ attempts > interactionCount
    /\ Len(returned.results) = interactionCount
    /\ interactionCount >= 2

\* C4: whatever the successes and failures, the number of loop iterations
\* never exceeds targetCount + 0.5 * targetCount.
C4_AttemptsBounded == attempts * 2 <= interactionCount * 3

\* C5: in the loop and in the returned result, successCount <= targetCount
\* and at least successCount outcomes are recorded.
C5_Counts ==
    /\ pc \in LoopStates \cup {"done"} =>
          /\ successCount <= interactionCount
          /\ Len(results) >= successCount
    /\ returned # None =>
          /\ returned.successful <= returned.total
          /\ Len(returned.results) >= returned.successful

C5_Witness ==
    /\ pc = "done" /\ returned # None
    /\ returned.successful = returned.total
    /\ Len(returned.results) > returned.successful

\* C6: no two outcomes in results carry the same interactionId.
C6_UniqueIds ==
    \A a, b \in 1..Len(results) :
        a # b => results[a].interactionId # results[b].interactionId

C6_Witness ==
    /\ retriesLeft < initialRetries(interactionCount)
    /\ \E a, b \in 1..Len(results) :
          /\ a < b
          /\ results[a].status = "failed"
          /\ results[b].status = "success"
          /\ results[b].interactionId > interactionCount

\* C7: once in the loop, interact reaches DONE, and every iteration changes
\* successCount, attemptIndex or retriesLeft.
C7_Terminates ==
    /\ (pc = "loop") ~> (pc = "done")
    /\ [][pc' = "delay" =>
            <<successCount, i, retriesLeft>>' # <<successCount, i, retriesLeft>>]_vars

C7_Witness ==
    /\ pc = "done" /\ HasWriteFunction
    /\ interactionCount >= 2
    /\ attempts >= 2 * interactionCount

\* C8: with no write function in the interface, interact returns
\* {total: N, successful: 0, results: []} without raising and without a
\* transaction from the loop.
C8_EmptyCatalog ==
    [][(pc = "filter" /\ ~ HasWriteFunction) =>
          (/\ pc' = "done"
           /\ returned' = [total |-> interactionCount, successful |-> 0,
                           results |-> <<>>]
           /\ attempts' = 0
           /\ pending' = None)]_vars

C8_Witness ==
    /\ pc = "done" /\ ~ HasWriteFunction
    /\ returned = [total |-> interactionCount, successful |-> 0, results |-> <<>>]

\* C9: a failed attempt in the loop never propagates out of interact: from
\* the loop the run only goes on in the loop or returns a result with
\* total, successful and results.
WellFormedResult(r) ==
    r # None /\ DOMAIN r = {"total", "successful", "results"}

StaysOrReturns ==
    /\ pc' \in LoopStates \cup {"done"}
    /\ (pc' = "done") => WellFormedResult(returned')

C9_NoPropagation == [][(pc \in LoopStates) => StaysOrReturns]_vars

C9_Witness ==
    /\ pc = "done" /\ returned # None
    /\ \E a, b \in 1..Len(returned.results) :
          /\ a < b
          /\ returned.results[a].status = "failed"
          /\ returned.results[b].status = "success"

\* C10: while successCount/targetCount < 0.3 and a write function is named
\* after set, init, add or increment, the function sent is one of those;
\* with N = 10 and a Submitter that always succeeds the outcomes 1 to 3 name
\* functions of the warm-up pool.
C10_WarmUpSelection ==
    /\ (pc = "waiting" /\ successCount * 10 < interactionCount * 3
            /\ HasWarmUpFunction)
       => WarmUpName(pending.fn.name)
    /\ (interactionCount = EndToEndCount /\ submitter = "succeeds"
            /\ abi = EndToEndAbi)
       => \A k \in 1..Len(results) :
             k <= 3 => /\ results[k].interactionId = k
                       /\ results[k].function \in {NAME_addTotal, NAME_setValue}

C10_Witness ==
    /\ pc = "done" /\ interactionCount = EndToEndCount
    /\ Len(results) = EndToEndCount
    /\ AllStatus(results, "success")
    /\ \E k \in 1..3 : results[k].function = NAME_addTotal
    /\ \E k \in 1..3 : results[k].function = NAME_setValue


\* C12: a failed initialization call is swallowed: interact does not raise,
\* and with a write function in the interface it enters the loop with the
\* same targetCount and fresh counters.
InitSwallowed ==
    /\ (pc = "initializing") => (pc' \in {"initializing", "filter"})
    /\ (pc = "filter" /\ initFailed /\ HasWriteFunction) =>
          (pc' = "loop" /\ i' = 0 /\ successCount' = 0 /\ results' = <<>>)
    /\ interactionCount' = interactionCount

C12_InitSwallowed == [][InitSwallowed]_vars

C12_Witness ==
    /\ pc = "done" /\ initFailed /\ returned # None
    /\ returned.total = interactionCount
    /\ returned.successful = interactionCount

\* C13: a failed write of the outcome log is not raised and does not change
\* the returned result: leaving the loop always returns total, successful
\* and results as the loop left them, whether the file was written or not.
ReturnsLoopResult ==
    (pc = "loop" /\ pc' # "loop" /\ pc' # "waiting" /\ pc' # "delay") =>
        /\ pc' = "done"
        /\ returned' = [total |-> interactionCount,
                        successful |-> successCount,
                        results |-> results]

C13_SaveFailureIgnored == [][ReturnsLoopResult]_vars

C13_Witness ==
    /\ pc = "done" /\ HasWriteFunction
    /\ saved = <<>>
    /\ returned # None /\ returned.successful >= 1
    /\ Len(returned.results) > returned.successful

\* C14: the delay is awaited after every iteration, successful or failed:
\* as many delays as iterations have passed whenever the loop test is
\* evaluated, one less while an iteration is under way.
C14_DelayEveryIteration ==
    /\ pc \in {"loop", "done"} => clock = attempts
    /\ pc \in {"waiting", "delay"} => clock = attempts - 1

C14_Witness ==
    /\ pc = "done" /\ clock = attempts
    /\ successCount >= 1
    /\ retriesLeft < initialRetries(interactionCount)
    /\ \E k \in 1..Len(results) : results[k].status = "failed"

\* C15: the loop stops exactly when successCount < targetCount AND
\* (attemptIndex < targetCount OR retriesLeft > 0) is false, and the result
\* then returned has total = targetCount and successful = the number of
\* outcomes of status 'success'.
SuccessOutcomes(rs) == {k \in 1..Len(rs) : rs[k].status = "success"}

StopsExactly ==
    (pc = "loop") =>
        IF successCount < interactionCount
              /\ (i < interactionCount \/ retriesLeft > 0)
        THEN pc' \in {"waiting", "delay"}
        ELSE /\ pc' = "done"
             /\ returned'.total = interactionCount
             /\ returned'.successful = Cardinality(SuccessOutcomes(returned'.results))

C15_StopsExactly == [][StopsExactly]_vars

C15_Witness ==
    /\ pc = "done" /\ HasWriteFunction
    /\ successCount < interactionCount
    /\ successCount >= 1
    /\ i >= interactionCount /\ retriesLeft <= 0
    /\ returned.successful = Cardinality(SuccessOutcomes(returned.results))

\* C20: retriesLeft starts at floor(targetCount * 0.5), is always a
\* non-negative integer and reaches exactly 0 when exhausted.
C20_RetriesWholeNumber ==
    (pc \in LoopStates \cup {"done"} /\ HasWriteFunction) =>
        /\ retriesLeft % Halves = 0
        /\ retriesLeft >= 0
        /\ retriesLeft <= ((interactionCount * 5) \div 10) * Halves


\* C16: for a uint256 parameter the value lies in the range fixed by the
\* function name, the first matching rule deciding: [2,6] for power,
\* [1,50] for decrement or subtract, [2,9] for divide, [10,109] for
\* increment or add, [1,200] otherwise.
NameHas(name, sub) == includes(toLowerCase(name), sub)

UintRange(name) ==
    IF NameHas(name, STR_power) THEN 2..6
    ELSE IF NameHas(name, STR_decrement) \/ NameHas(name, STR_subtract) THEN 1..50
    ELSE IF NameHas(name, STR_divide) THEN 2..9
    ELSE IF NameHas(name, STR_increment) \/ NameHas(name, STR_add) THEN 10..109
    ELSE 1..200

C16_UintRanges ==
    (synthLast # None /\ synthLast.type = "uint256")
        => synthLast.value \in UintRange(synthLast.name)

C16_Witness ==
    /\ synthCount = 2
    /\ synthFirst.type = "uint256" /\ synthFirst.name = NAME_divideShare
    /\ synthFirst.value = 2
    /\ synthLast.type = "uint256" /\ synthLast.name = NAME_divideShare
    /\ synthLast.value = 9

\* C19: the synthesizer keeps no state between calls: a later call with the
\* parameter type, function name, caller address and random draw of the
\* first call returns the value the first call returned, whatever calls
\* were made in between.
SameInputs(a, b) ==
    /\ a.type = b.type /\ a.name = b.name
    /\ a.wallet = b.wallet /\ a.rand = b.rand

-----------------------------------------------------------------------------
(* The wallet loop *)

\* the wallet being processed
CurrentWallet == wallets[walletIndex + 1]

\* no stored contract was deployed by the wallet being processed
NoPreviousContract ==
    \A k \in 1..Len(deployedStore) :
        toLowerCase(deployedStore[k].wallet) # toLowerCase(CurrentWallet)

\* the contract at this address was loaded from the deployments folder and
\* was deployed by the wallet being processed
PreviouslyDeployedHere(contractAddress) ==
    \E k \in 1..Len(deployedStore) :
        /\ deployedStore[k].address = contractAddress
        /\ deployedStore[k].loaded
        /\ toLowerCase(deployedStore[k].wallet) = toLowerCase(CurrentWallet)

\* a step that starts an attempt, a contract or a wallet starts it with
\* nothing left running from the one before
SequentialStep ==
    /\ (attempts' = attempts + 1) => (inFlight = 0 /\ pending = None)
    /\ (wpc' = "interacting" /\ wpc # "interacting") =>
           (pc = "idle" /\ inFlight = 0)
    /\ (walletIndex' # walletIndex) =>
           /\ wpc = "returned"
           /\ pc = "idle"
           /\ inFlight = 0
           /\ processed[Len(processed)] = walletIndex

\* C11: execution is strictly sequential: at most one transaction of the
\* program awaits confirmation at any moment; an attempt starts only after
\* the previous attempt's transaction was confirmed or failed, a contract
\* only after the previous contract's interact has returned, a wallet only
\* after the previous wallet's processing has returned
C11_Sequential == [](inFlight <= 1) /\ [][SequentialStep]_vars

\* the second wallet's second contract, second attempt awaiting its receipt
C11_Witness ==
    /\ walletIndex = 1
    /\ processed = <<0>>
    /\ contractIndex = 1
    /\ wpc = "interacting"
    /\ attempts = 2
    /\ pc = "waiting"
    /\ inFlight = 1

\* C17: with deploy.skipDeploy set, processing a wallet deploys nothing and
\* interacts only with contracts that wallet deployed before this run, also
\* when no such contract is found
C17_SkipDeployNeverDeploys ==
    (wpc \notin {"main", "exit"} /\ config.skipDeploy) =>
        /\ deployLog = <<>>
        /\ \A k \in 1..Len(interactLog) : PreviouslyDeployedHere(interactLog[k])

\* C18: with interaction.onlyExisting set, deployContract is never called,
\* and a wallet without a previously deployed contract returns without any
\* deployment and without any interaction
C18_OnlyExisting ==
    (wpc \notin {"main", "exit"} /\ config.onlyExisting) =>
        /\ deployLog = <<>>
        /\ wpc \notin {"deploy", "deployTry", "deployWait"}
        /\ (wpc = "returned" /\ NoPreviousContract) => interactLog = <<>>

\* a wallet returns with nothing done while the store holds a contract of
\* the other wallet
C18_Witness ==
    /\ program = "index"
    /\ config.onlyExisting
    /\ wpc = "returned"
    /\ processed = <<0>>
    /\ CurrentWallet = ADDR_B
    /\ Len(deployedStore) = 1
    /\ NoPreviousContract
    /\ interactLog = <<>>


-----------------------------------------------------------------------------
(* The steps of one attempt *)

\* the step appends an outcome of status 'success'
NewSuccess ==
    /\ Len(results') = Len(results) + 1
    /\ results'[Len(results')].status = "success"

\* the step ends an attempt with a confirmed transaction
SuccessfulAttempt ==
    /\ pc = "waiting"
    /\ NewSuccess

\* the step ends an attempt without a success: the selection, the send or
\* the confirmation raised
FailedAttempt ==
    /\ pc \in {"loop", "waiting"}
    /\ pc' \notin {"loop", "waiting", "done"}
    /\ ~ NewSuccess

FailedOutcomes(rs) == {k \in 1..Len(rs) : rs[k].status = "failed"}

\* C21: in the running loop the attempt counter is at most targetCount, so
\* every recorded interactionId lies in 1..targetCount
C21_AttemptIndexBounded ==
    (pc \in LoopStates \cup {"done"}) =>
        /\ i <= interactionCount
        /\ \A k \in 1..Len(results) :
              results[k].interactionId \in 1..interactionCount

SuccessRecorded ==
    SuccessfulAttempt =>
        /\ Len(results') = Len(results) + 1
        /\ SubSeq(results', 1, Len(results)) = results
        /\ results'[Len(results')].interactionId = i + 1
        /\ successCount' = successCount + 1
        /\ i' = i + 1

\* C22: a successful attempt appends exactly one outcome, of status
\* 'success' and with interactionId one more than the attempt counter before
\* the step, then adds 1 to successCount and 1 to the attempt counter
C22_SuccessRecorded == [][SuccessRecorded]_vars

\* a success drawn from the retry budget: its id is past targetCount
C22_Witness ==
    /\ pc = "delay"
    /\ Len(results) >= 2
    /\ results[Len(results)].status = "success"
    /\ results[Len(results)].interactionId = i
    /\ i > interactionCount
    /\ successCount >= 1

RegularFailureRecorded ==
    (FailedAttempt /\ i < interactionCount) =>
        /\ Len(results') = Len(results) + 1
        /\ SubSeq(results', 1, Len(results)) = results
        /\ results'[Len(results')].status = "failed"
        /\ results'[Len(results')].interactionId = i + 1
        /\ i' = i + 1
        /\ successCount' = successCount
        /\ retriesLeft' = retriesLeft

\* C23: a failed attempt made while the attempt counter is below
\* targetCount appends exactly one outcome, of status 'failed' and with
\* interactionId = counter + 1, adds 1 to the counter and leaves successCount
\* and retriesLeft as they were
C23_RegularFailure == [][RegularFailureRecorded]_vars

\* a regular failure after a success
C23_Witness ==
    /\ pc = "delay"
    /\ successCount = 1
    /\ i = 2
    /\ i <= interactionCount
    /\ results[2].status = "failed"
    /\ results[2].interactionId = 2
    /\ retriesLeft = initialRetries(interactionCount)

RetryFailureCounted ==
    (FailedAttempt /\ i >= interactionCount) =>
        /\ retriesLeft' = retriesLeft - Halves
        /\ results' = results
        /\ i' = i
        /\ successCount' = successCount

\* C24: a failed attempt made when the attempt counter has reached
\* targetCount takes 1 from retriesLeft and leaves results, the counter and
\* successCount as they were
C24_RetryFailure == [][RetryFailureCounted]_vars

\* a retry-budget failure: nothing logged for the latest attempt
C24_Witness ==
    /\ pc = "delay"
    /\ i = interactionCount
    /\ Len(results) = interactionCount
    /\ retriesLeft = initialRetries(interactionCount) - Halves
    /\ attempts = interactionCount + 1

\* C25 as stated: every failed attempt is recorded, the outcomes of status
\* 'failed' are as many as the failed attempts
C25_EveryFailureRecorded ==
    (pc \in {"loop", "done"} /\ HasWriteFunction) =>
        Cardinality(FailedOutcomes(results)) = attempts - successCount

FailureRecordedOrCounted ==
    FailedAttempt =>
        /\ pc' = "delay"
        /\ Cardinality(FailedOutcomes(results')) =
              Cardinality(FailedOutcomes(results))
                 + (IF i < interactionCount THEN 1 ELSE 0)

\* C25, amended: every failed attempt made while the attempt counter is
\* below targetCount is recorded as one failed outcome, a failed attempt
\* drawn from the retry budget is not recorded, and in both cases the loop
\* continues; the outcomes of status 'failed' are as many as the counter
\* minus successCount
C25_RegularFailuresRecorded ==
    /\ []((pc \in LoopStates \cup {"done"}) =>
             Cardinality(FailedOutcomes(results)) = i - successCount)
    /\ [][FailureRecordedOrCounted]_vars

\* a run with a logged failure and an unlogged one
C25_Witness ==
    /\ pc = "done"
    /\ Cardinality(FailedOutcomes(results)) >= 1
    /\ Cardinality(FailedOutcomes(results)) < attempts - successCount


-----------------------------------------------------------------------------
(* The selection, stated on the interface itself *)

WriteItem(item) ==
    /\ item.type = "function"
    /\ item.stateMutability \notin {"view", "pure"}

SafeName(name) ==
    \A problem \in {STR_power, STR_decrement, STR_pop, STR_divide} :
        ~ includes(toLowerCase(name), problem)

SafeWriteItem(item) == WriteItem(item) /\ SafeName(item.name)

\* fn is a state-changing function of the interface
IsAbiWrite(fn) == \E k \in 1..Len(abi) : abi[k] = fn /\ WriteItem(abi[k])

\* fn is a state-changing function of the interface outside the denylist
IsAbiSafeWrite(fn) == \E k \in 1..Len(abi) : abi[k] = fn /\ SafeWriteItem(abi[k])

WarmUpPhase == successCount * 10 < interactionCount * 3

SteadyPhase ==
    /\ successCount * 10 >= interactionCount * 3
    /\ successCount * 10 < interactionCount * 7

ClosingPhase == successCount * 10 >= interactionCount * 7

\* an iteration is about to select
AboutToSelect ==
    /\ pc = "loop"
    /\ successCount < interactionCount
    /\ (i < interactionCount \/ retriesLeft > 0)

\* C26: whenever the catalog has a write function, every iteration of the
\* running loop selects one of the catalog's write functions and invokes the
\* Submitter with it; the pool is never empty in any phase
C26_PoolNeverEmpty ==
    HasWriteFunction =>
        /\ AboutToSelect =>
              Len(functionPool(writeFunctions, safeFunctions, successCount,
                               interactionCount)) > 0
        /\ \A k \in 1..Len(results) :
              results[k].status = "failed" => results[k].error # "TypeError"

\* C27: while 0.3 <= successCount/targetCount < 0.7 the function sent is a
\* safe function when there is one, and a write function of the catalog
\* otherwise
C27_SteadySelection ==
    (pc = "waiting" /\ SteadyPhase) =>
        IF HasSafeWriteFunction
        THEN IsAbiSafeWrite(pending.fn)
        ELSE IsAbiWrite(pending.fn)

\* the steady phase on a catalog with a denylisted function: the safe one
\* is sent
C27_Witness ==
    /\ pc = "waiting"
    /\ SteadyPhase
    /\ abi = MixedAbi
    /\ pending.fn.name = NAME_toggle

\* C28: once successCount/targetCount >= 0.7 the pool is the whole list of
\* write functions, denylisted ones included, and the function sent is one
\* of them
C28_ClosingSelection ==
    /\ (AboutToSelect /\ ClosingPhase) =>
          functionPool(writeFunctions, safeFunctions, successCount,
                       interactionCount) = SelectSeq(abi, WriteItem)
    /\ (pc = "waiting" /\ ClosingPhase) => IsAbiWrite(pending.fn)

\* a denylisted function sent in the closing phase
C28_Witness ==
    /\ pc = "waiting"
    /\ ClosingPhase
    /\ IsAbiWrite(pending.fn)
    /\ ~ SafeName(pending.fn.name)
    /\ HasSafeWriteFunction

\* C29: while successCount/targetCount < 0.3 and no write function is named
\* after set, init, add or increment, the function sent is a safe function
C29_WarmUpFallback ==
    (pc = "waiting" /\ WarmUpPhase /\ ~ HasWarmUpFunction) =>
        IsAbiSafeWrite(pending.fn)

\* the fallback on a catalog that also has a denylisted function
C29_Witness ==
    /\ pc = "waiting"
    /\ WarmUpPhase
    /\ ~ HasWarmUpFunction
    /\ abi = NoWarmUpAbi
    /\ pending.fn.name = NAME_storeData

SafeFunctionsKept ==
    (pc \in LoopStates) => safeFunctions' = safeFunctions

\* C30: safeFunctions is exactly the write functions whose name, in lower
\* case, contains none of power, decrement, pop and divide; it is computed
\* once before the loop and does not change during the run
C30_SafeFunctions ==
    /\ []((pc \in LoopStates) => safeFunctions = SelectSeq(abi, SafeWriteItem))
    /\ [][SafeFunctionsKept]_vars

\* a name that is in the denylist only after lower-casing is left out
C30_Witness ==
    /\ pc = "delay"
    /\ abi = NoWarmUpAbi
    /\ Len(safeFunctions) = 1
    /\ safeFunctions[1].name = NAME_storeData
    /\ attempts >= 2


-----------------------------------------------------------------------------
(* What the loop calls, what it records, what it hands over *)

\* the name of a state-changing function of the interface
IsAbiWriteName(name) ==
    \E k \in 1..Len(abi) : WriteItem(abi[k]) /\ abi[k].name = name

\* C31: the running loop only selects and submits interface entries of type
\* function whose state mutability is neither view nor pure
C31_OnlyWriteFunctions ==
    /\ (pc = "waiting") => IsAbiWrite(pending.fn)
    /\ \A k \in 1..Len(results) :
          results[k].status = "success" => IsAbiWriteName(results[k].function)

\* a transaction in flight on an interface that also has a view and a
\* denylisted function, in the steady phase
C31_Witness ==
    /\ pc = "waiting"
    /\ abi = MixedAbi
    /\ successCount >= 1
    /\ IsAbiWrite(pending.fn)
    /\ results[1].function = NAME_resetPower

RequiredFields == {"interactionId", "function", "arguments", "status",
                   "timestamp"}

\* C32: every outcome in results, successful or failed, carries
\* interactionId, function, arguments, status and timestamp
C32_OutcomeFields ==
    \A k \in 1..Len(results) : RequiredFields \subseteq DOMAIN results[k]

\* C33: when interact returns a batch result, its outcome list has been
\* handed to saveInteractions exactly once
C33_HandedOnce ==
    (pc = "done") => handed = <<returned.results>>

\* C34: after every iteration the attempt counter equals the number of
\* outcomes, the k-th outcome has interactionId k, and an outcome once
\* appended stays as it is
ResultsGrowOnly ==
    (pc \in LoopStates) =>
        /\ Len(results') >= Len(results)
        /\ SubSeq(results', 1, Len(results)) = results

IdsInOrder ==
    (pc \in LoopStates \cup {"done"}) =>
        /\ i = Len(results)
        /\ \A k \in 1..Len(results) : results[k].interactionId = k

C34_IdsInOrder == []IdsInOrder /\ [][ResultsGrowOnly]_vars

\* a failure, an unlogged retry failure and a success past the target
C34_Witness ==
    /\ pc = "done"
    /\ attempts > Len(results)
    /\ Len(results) > interactionCount
    /\ results[Len(results)].status = "success"
    /\ results[1].status = "failed"

\* 0 in the warm-up, 1 in the steady, 2 in the closing phase
PhaseOf(sc, n) ==
    IF sc * 10 < n * 3 THEN 0 ELSE IF sc * 10 < n * 7 THEN 1 ELSE 2

PhaseMovesForward ==
    (pc \in LoopStates) =>
        /\ successCount' >= successCount
        /\ PhaseOf(successCount', interactionCount')
              >= PhaseOf(successCount, interactionCount)

\* C35: successCount never decreases during a run, so the selection phase
\* only moves forward
C35_PhaseMovesForward == [][PhaseMovesForward]_vars

\* a failure in the steady phase, after the warm-up was left
C35_Witness ==
    /\ pc = "delay"
    /\ PhaseOf(successCount, interactionCount) = 1
    /\ Len(results) >= 2
    /\ results[1].status = "success"
    /\ results[Len(results)].status = "failed"

\* C36: the initialization transactions add no outcome and do not count:
\* during them and when the loop begins, results is empty, successCount and
\* the attempt counter are 0 and retriesLeft is targetCount * 0.5
C36_InitLeavesNoTrace ==
    /\ (pc \in {"initializing", "filter"}) =>
          (results = <<>> /\ successCount = 0 /\ attempts = 0)
    /\ (pc = "loop" /\ attempts = 0) =>
          /\ results = <<>>
          /\ successCount = 0
          /\ i = 0
          /\ retriesLeft * 2 = interactionCount * Halves

\* the loop begins after six confirmed initialization calls
C36_Witness ==
    /\ pc = "loop"
    /\ attempts = 0
    /\ initStep = InitCalls
    /\ ~ initFailed
    /\ results = <<>>


-----------------------------------------------------------------------------
(* claimFaucet *)

\* C37: claimFaucet never raises; it makes at most maxRetries attempts,
\* returns {success: true} at the first attempt that succeeds, and returns
\* {success: false} with an error message once maxRetries attempts failed
C37_ClaimFaucetBounded ==
    /\ fpc # "threw"
    /\ fAttempts <= fMaxRetries
    /\ fPosts <= fAttempts
    /\ (fpc = "returned") =>
          /\ fResult # None
          /\ IF fResult.success
             THEN fAttempts = fRetryCount + 1
             ELSE /\ fRetryCount = fMaxRetries
                  /\ fAttempts = fMaxRetries
                  /\ "error" \in DOMAIN fResult
    /\ (fpc # "returned") => fResult = None

\* success at the third attempt
C37_Witness ==
    /\ fpc = "returned"
    /\ fResult.success
    /\ fRetryCount = 2
    /\ fAttempts = 3
    /\ fRegion = REGION_us


-----------------------------------------------------------------------------
(* processWallet: the faucet block, the deployments, the containment of
   failures *)

\* the faucet loop is in the state it has after its last failed claim
FaucetExhausted ==
    /\ wpc = "faucet"
    /\ ~ faucetSuccess
    /\ retryCount = MaxFaucetRetries

\* one step of processWallet seen from the faucet block
FaucetBlockStep ==
    \* the faucet block is entered with a balance below minBalance only
    /\ (wpc' = "faucet") => (initialBalance' < config.minBalance)
    \* the claim that exhausts the retries ends a wallet of balance zero
    \* before any deployment or interaction, and no other wallet
    /\ (wpc = "faucet" /\ ~ faucetSuccess'
          /\ retryCount < MaxFaucetRetries
          /\ retryCount' = MaxFaucetRetries) =>
          IF initialBalance = 0
          THEN /\ wpc' = "returned"
               /\ deployLog' = <<>>
               /\ interactLog' = <<>>
               /\ processed' = Append(processed, walletIndex)
          ELSE wpc' = "faucet"
    \* after the retries are exhausted the wallet goes on to the contracts
    /\ FaucetExhausted => (initialBalance # 0 /\ wpc' = "lookup")
    \* the contracts are reached past the faucet block after a successful
    \* claim or after the retries are exhausted
    /\ (wpc = "faucet" /\ wpc' = "lookup") =>
          (faucetSuccess \/ retryCount = MaxFaucetRetries)

\* C38: the faucet is called only for a balance below minBalance; when the
\* faucet retries are exhausted a wallet of initial balance zero is skipped
\* with no deployment and no interaction, and a wallet of non-zero initial
\* balance goes on to deployment and interaction
C38_FaucetExhaustion == [][FaucetBlockStep]_vars

\* a wallet of balance zero skipped after the last failed claim
C38_Witness ==
    /\ wpc = "returned"
    /\ initialBalance = 0
    /\ retryCount = MaxFaucetRetries
    /\ ~ faucetSuccess
    /\ deployLog = <<>>
    /\ interactLog = <<>>
    /\ processed = <<0>>


\* the function count configured for a deployment
ConfiguredCount == OrDefault(config.functionCount, 100)

\* y is floor(0.8 * x)
IsFloorOfEightTenths(y, x) == 10 * y <= 8 * x /\ 8 * x < 10 * (y + 1)

\* the counts passed to deployContract for this wallet: each is the
\* configured count (the first attempt for a contract) or floor(0.8 * the
\* count before it), and no contract has a fourth attempt
DeployLogShape ==
    /\ \A k \in 1..Len(deployLog) :
          \/ deployLog[k] = ConfiguredCount
          \/ /\ k > 1
             /\ deployLog[k] < ConfiguredCount
             /\ IsFloorOfEightTenths(deployLog[k], deployLog[k - 1])
    /\ \A k \in 1..Len(deployLog) :
          (k > MaxDeployRetries) =>
             \E j \in (k - MaxDeployRetries + 1)..k :
                deployLog[j] = ConfiguredCount
    /\ Len(deployLog) <= MaxDeployRetries * OrDefault(config.deployCount, 1)

\* one step of the deploy block
DeployBlockStep ==
    \* a call is made only while no attempt succeeded and fewer than three
    \* failed; it is a first attempt, with the configured count, exactly
    \* when none failed yet
    /\ (deployLog' # deployLog /\ deployLog' # <<>>) =>
          /\ wpc = "deployTry"
          /\ ~ deploySuccess
          /\ retryCount < MaxDeployRetries
          /\ deployLog' = Append(deployLog, deployLog'[Len(deployLog')])
          /\ (retryCount = 0) <=>
                (deployLog'[Len(deployLog')] = ConfiguredCount)
          /\ deployIndex' = deployIndex
    \* after a success or three failures the loop goes to the next contract
    \* without another call, and only a success added a contract
    /\ (wpc = "deployTry"
          /\ (deploySuccess \/ retryCount >= MaxDeployRetries)) =>
          /\ deployLog' = deployLog
          /\ deployIndex' = deployIndex + 1
          /\ wpc' = "deploy"
    \* a failure adds no contract, a success adds the one of the last call
    /\ (wpc = "deployWait" /\ wpc' = "deployTry") =>
          IF deploySuccess'
          THEN /\ Len(deployedContracts') = Len(deployedContracts) + 1
               /\ retryCount' = retryCount
          ELSE /\ deployedContracts' = deployedContracts
               /\ retryCount' = retryCount + 1
    \* the next contract starts from the configured count and no failure
    /\ (wpc = "deploy" /\ wpc' = "deployTry") =>
          /\ functionCount' = ConfiguredCount
          /\ retryCount' = 0
          /\ ~ deploySuccess'

\* C39: for each contract processWallet calls deployContract at most 3
\* times and stops at the first success; each retry uses floor(0.8 * the
\* count of the attempt before it), the next contract starts again from the
\* configured count, and after 3 failures the contract is skipped and the
\* loop goes on with the next one
C39_DeployRetries == []DeployLogShape /\ [][DeployBlockStep]_vars

\* the first contract was given up after attempts with 120, 96 and 76
\* functions, and the second is being deployed with 120
C39_Witness ==
    /\ wpc = "deployWait"
    /\ deployLog = <<DefaultFunctionCount, 96, 76, DefaultFunctionCount>>
    /\ deployIndex = 1
    /\ deployedContracts = <<>>
    /\ retryCount = 0


\* the wallets 0, 1, ... n-1 in list order
FirstWallets(n) == [k \in 1..n |-> k - 1]

\* the addresses of a list of contracts
AddressesOf(contracts) ==
    [k \in 1..Len(contracts) |-> contracts[k].address]

\* main entered its loop over the wallets
WalletLoopEntered ==
    ~ (program = "interactOnly" /\ Len(deployedStore) = 0)

\* the wallets are processed once each and in list order, the errors of
\* some of them notwithstanding, and a wallet that reached its contracts
\* has called interact once for each of them, in order, when it ends
FailuresContained ==
    /\ processed = FirstWallets(Len(processed))
    /\ Len(processed) <= Len(wallets)
    /\ walletErrors <= Len(processed)
    /\ interactErrors <= Len(interactLog)
    /\ (wpc \in {"balance", "faucet", "lookup", "existing", "deploy",
                 "deployTry", "deployWait", "interact", "interacting",
                 "contractDelay", "final"}) => (Len(processed) = walletIndex)
    /\ (wpc \in {"final", "returned", "exit"}) =>
          (interactLog = AddressesOf(deployedContracts))
    /\ (wpc = "exit" /\ WalletLoopEntered) =>
          (processed = FirstWallets(Len(wallets)))

\* one step of the two loops
ContainmentStep ==
    \* an exception of interact is caught at the call: the wallet goes on
    \* with the sleep and the next contract
    /\ (wpc = "interacting" /\ pc = "threw") =>
          /\ wpc' = "contractDelay"
          /\ interactErrors' = interactErrors + 1
          /\ UNCHANGED <<processed, walletErrors, contractIndex,
                         deployedContracts>>
    /\ (wpc = "contractDelay") =>
          /\ wpc' = "interact"
          /\ contractIndex' = contractIndex + 1
    /\ (wpc = "interact" /\ contractIndex < Len(deployedContracts)) =>
          /\ wpc' = "interacting"
          /\ interactLog' =
                Append(interactLog, deployedContracts[contractIndex + 1].address)
    \* an error of a wallet ends that wallet only
    /\ (walletErrors' # walletErrors) =>
          /\ wpc' = "returned"
          /\ processed' = Append(processed, walletIndex)
    /\ (wpc = "returned") =>
          IF walletIndex + 1 < Len(wallets)
          THEN /\ wpc' = "balance"
               /\ walletIndex' = walletIndex + 1
               /\ processed' = processed
          ELSE wpc' = "exit"

\* C40: an exception raised by interact for one contract does not prevent
\* the interaction with the remaining contracts of the wallet, and an error
\* while one wallet is processed does not prevent the processing of the
\* remaining wallets, each exactly once and in list order
C40_FailuresContained == []FailuresContained /\ [][ContainmentStep]_vars

\* the first wallet ended in the outer catch; for the second wallet interact
\* threw on the first contract and has been called for the second
C40_Witness ==
    /\ processed = <<0>>
    /\ walletErrors = 1
    /\ walletIndex = 1
    /\ wpc = "interacting"
    /\ interactErrors = 1
    /\ contractIndex = 1
    /\ Len(interactLog) = 2

====
